---- MODULE Spec2Model ----
(***************************************************************************)
(* The users endpoints of the backend (routes/userRoutes.ts) over the user *)
(* service (services/userService.ts): register, login, me, refresh,        *)
(* logout, delete and microsoft-auth, with the users table, the signed     *)
(* tokens and the clock they read.                                         *)
(*                                                                         *)
(* Text values (names, emails, passwords, ids) are tuples of one-character *)
(* strings, so that length, prefix and format checks are computed on them. *)
(* The empty tuple stands for a falsy request field (absent or "").        *)
(***************************************************************************)
EXTENDS Integers, Sequences, FiniteSets, TLC

VARIABLES
    users,    \* the rows of the users table (prisma.users)
    env,      \* process.env: the two signing secrets and NODE_ENV
    now,      \* the wall clock, in milliseconds (Date.now())
    minted,   \* how many primary keys the store has generated
    issued,   \* every token handed out so far (what clients may present)
    inflight, \* register requests past the existence check, awaiting the insert
    req,      \* the request just answered, NoRequest when idle
    resp,     \* the response in flight to the client, NoResponse when idle
    steps,    \* requests and clock advances so far
    crm       \* the contacts, interactions, activities and businesses tables

vars == <<users, env, now, minted, issued, inflight, req, resp, steps, crm>>

----------------------------------------------------------------------------
(* Bounds of the exploration *)

MaxSteps == 4

\* the clock stops advancing after this many days
MaxDays == 8

\* register requests that may be between their existence check and their insert
MaxInflight == 2

----------------------------------------------------------------------------
(* Text helpers *)

Null == <<>>

Rep(c, n) == [i \in 1..n |-> c]

Truthy(s) == s # Null

Letters == {"a", "b", "c", "e", "f", "h", "i", "m", "n", "o", "r", "s", "t", "u", "A", "B"}

Digits == {"0", "1", "2", "3", "4", "5", "6", "7", "8", "9"}

IsAlnum(c) == c \in Letters \cup Digits

IndexOf(s, c) ==
    IF \E i \in 1..Len(s) : s[i] = c
    THEN CHOOSE i \in 1..Len(s) : s[i] = c /\ \A j \in 1..(i - 1) : s[j] # c
    ELSE 0

----------------------------------------------------------------------------
(* registerSchema: zod object of name, email, password *)

MinNameLen == 2

MinPasswordLen == 6

LocalChars == Letters \cup Digits \cup {"_", "'", "+", "-", "."}

\* z.string().email(): the shape zod's email pattern accepts, i.e.
\* local part, one "@", dot-separated labels, a top-level label of letters.
IsEmail(s) ==
    LET at == IndexOf(s, "@")
        local == SubSeq(s, 1, at - 1)
        domain == SubSeq(s, at + 1, Len(s))
        dots == {i \in 1..Len(domain) : domain[i] = "."}
        lastDot == CHOOSE i \in dots : \A j \in dots : j <= i
    IN  /\ at > 1
        /\ \A i \in 1..Len(local) : local[i] \in LocalChars
        /\ local[1] # "."
        /\ local[Len(local)] \in (LocalChars \ {".", "'"})
        /\ \A i \in 1..(Len(s) - 1) : ~(s[i] = "." /\ s[i + 1] = ".")
        /\ Len(domain) > 0
        /\ \A i \in 1..Len(domain) : IsAlnum(domain[i]) \/ domain[i] \in {"-", "."}
        /\ IsAlnum(domain[1])
        /\ \A i \in dots : i < Len(domain) /\ IsAlnum(domain[i + 1])
        /\ dots # {}
        /\ Len(domain) - lastDot >= 2
        /\ \A i \in (lastDot + 1)..Len(domain) : domain[i] \in Letters

\* registerSchema.safeParse(userData).error.issues: one message per failed field
registerSchema(name, email, password) ==
      (IF Len(name) < MinNameLen
       THEN {"Name must be at least 2 characters long."} ELSE {})
    \cup
      (IF ~IsEmail(email) THEN {"Invalid email address."} ELSE {})
    \cup
      (IF Len(password) < MinPasswordLen
       THEN {"Password must be at least 6 characters long."} ELSE {})

----------------------------------------------------------------------------
(* bcryptjs: hash(password, 10) and compare(password, hash) *)

BcryptCost == 10

\* bcrypt keys the cipher with at most 72 bytes of the password
BcryptMaxBytes == 72

BcryptKey(password) ==
    SubSeq(password, 1, IF Len(password) < BcryptMaxBytes
                        THEN Len(password) ELSE BcryptMaxBytes)

NoHash == [alg |-> "none", salt |-> "", cost |-> 0, key |-> Null]

\* the digest is represented by what it is a digest of: salt, cost and key
BcryptHash(password, salt) ==
    [alg |-> "bcrypt", salt |-> salt, cost |-> BcryptCost, key |-> BcryptKey(password)]

BcryptCompare(password, hash) ==
    /\ hash.alg = "bcrypt"
    /\ BcryptHash(password, hash.salt) = hash

----------------------------------------------------------------------------
(* jsonwebtoken: sign(payload, secret, {expiresIn}) and verify(token, secret) *)

AccessTtlSec == 24 * 60 * 60

RefreshTtlSec == 7 * 24 * 60 * 60

NoSig == [key |-> "", intact |-> FALSE]

NoToken ==
    [userId |-> Null, email |-> Null, name |-> Null, provider |-> "",
     iat |-> 0, exp |-> 0, sig |-> NoSig]

\* iat and exp are in whole seconds
JwtSign(payload, secret, ttl, clock) ==
    [userId |-> payload.userId, email |-> payload.email, name |-> payload.name,
     provider |-> payload.provider,
     iat |-> clock \div 1000, exp |-> (clock \div 1000) + ttl,
     sig |-> [key |-> secret, intact |-> TRUE]]

\* the signature is checked first, then the expiry
JwtVerify(token, secret, clock) ==
    IF token.sig # [key |-> secret, intact |-> TRUE] THEN "JsonWebTokenError"
    ELSE IF (clock \div 1000) >= token.exp THEN "TokenExpiredError"
    ELSE "ok"

\* a token whose signature bits were changed after issuance
Tamper(token) == [token EXCEPT !.sig.intact = FALSE]

----------------------------------------------------------------------------
(* Values thrown and sent: JSON values of the error field, thrown objects *)

JNone == [kind |-> "undefined", text |-> "", issues |-> {}, status |-> 0, inner |-> ""]

JStr(t) == [kind |-> "string", text |-> t, issues |-> {}, status |-> 0, inner |-> ""]

JArr(iss) == [kind |-> "array", text |-> "", issues |-> iss, status |-> 0, inner |-> ""]

\* the object {status: st, error: j}
JObj(st, j) ==
    [kind |-> "object", text |-> j.text, issues |-> j.issues, status |-> st,
     inner |-> j.kind]

\* a || b on JSON values
OrElse(j, default) ==
    IF j.kind = "undefined" \/ (j.kind = "string" /\ j.text = "") THEN default ELSE j

\* throw { status, error }: a plain object, not an Error
ThrownObject(st, j) ==
    [instanceofError |-> FALSE, name |-> "", code |-> "", message |-> "",
     status |-> st, error |-> j]

\* an Error instance thrown by a library (prisma, bcryptjs, jsonwebtoken)
ThrownError(name, code, message) ==
    [instanceofError |-> TRUE, name |-> name, code |-> code, message |-> message,
     status |-> 0, error |-> JNone]

DbDown == ThrownError("PrismaClientInitializationError", "P1001", "Can't reach database server")

DbNotFound == ThrownError("PrismaClientKnownRequestError", "P2025", "Record to delete does not exist.")

DbUniqueEmail ==
    ThrownError("PrismaClientKnownRequestError", "P2002",
                "Unique constraint failed on the fields: email")

DbUniqueId ==
    ThrownError("PrismaClientKnownRequestError", "P2002",
                "Unique constraint failed on the fields: id")

HashError == ThrownError("Error", "", "Illegal arguments")

\* where an injected failure strikes: the first lookup, the hash routine,
\* or the write (create, update, delete)
Faults == {"none", "find", "hash", "write"}

----------------------------------------------------------------------------
(* The users table *)

\* the tables of the CRM and business services, each a set of rows
Tables == {"contacts", "interactions", "activities", "businesses"}

EmptyCrm == [t \in Tables |-> {}]

DefaultPlanId == "3d599a04-2792-4862-b24a-7eaa35a72af5"

NoDate == <<>>

NoMicrosoftId == [prefix |-> "", id |-> Null, stamp |-> 0, rnd |-> ""]

NoUser ==
    [id |-> Null, name |-> Null, email |-> Null, password_hash |-> NoHash,
     plan_id |-> "", microsoft_id |-> NoMicrosoftId,
     created_at |-> NoDate, last_login |-> NoDate]

DigitChar(n) == <<"1", "2", "3", "4", "5", "6", "7", "8", "9">>[n]

\* the n-th primary key the store generates: 36 characters
Uuid(n) == Rep("0", 35) \o <<DigitChar(n)>>

\* prisma.users.findUnique({ where: { id } })
FindById(id) ==
    IF \E u \in users : u.id = id THEN CHOOSE u \in users : u.id = id ELSE NoUser

\* prisma.users.findUnique({ where: { email } })
FindByEmail(email) ==
    IF \E u \in users : u.email = email THEN CHOOSE u \in users : u.email = email
    ELSE NoUser

\* the unique index on users.email, which findUnique({ where: { email } })
\* relies on: the table rejects the insert of an email a row already holds
EmailIndexRejects(email) == \E u \in users : u.email = email

\* the primary key of the users table: the table rejects the insert of an id
\* a row already has
PrimaryKeyRejects(id) == \E u \in users : u.id = id

OAuthSuffix == <<"@", "m", "i", "c", "r", "o", "s", "o", "f", "t", ".", "o", "a", "u", "t", "h">>

----------------------------------------------------------------------------
(* UserService: each method returns what it resolves to or what it throws, *)
(* and the table as it leaves it                                           *)

Resolved(user, isNewUser, store) ==
    [ok |-> TRUE, status |-> 0, error |-> JNone, user |-> user,
     isNewUser |-> isNewUser, store |-> store, fault |-> "none"]

\* rejected with the plain object { status, error }
Rejected(st, j) ==
    [ok |-> FALSE, status |-> st, error |-> j, user |-> NoUser,
     isNewUser |-> FALSE, store |-> users, fault |-> "none"]

\* a rejection caused by the injected failure
Struck(fault, rejection) == [rejection EXCEPT !.fault = fault]

\* catch (error: any) of loginUser
loginUserCatch(e) ==
    Rejected(IF e.status # 0 THEN e.status ELSE 500,
             OrElse(e.error, JStr("Failed to login user")))

\* loginUser as it would be if it told an account without a password apart
loginUserNamingTheCase(email, password, fault) ==
    LET user == FindByEmail(email)
    IN  IF fault = "find" THEN Struck(fault, loginUserCatch(DbDown))
        ELSE IF user = NoUser
        THEN loginUserCatch(ThrownObject(401, JStr("Invalid email or password")))
        ELSE IF user.password_hash = NoHash
        THEN loginUserCatch(ThrownObject(401, JStr("This account signs in with Microsoft")))
        ELSE IF fault = "hash" THEN Struck(fault, loginUserCatch(HashError))
        ELSE IF ~BcryptCompare(password, user.password_hash)
        THEN loginUserCatch(ThrownObject(401, JStr("Invalid email or password")))
        ELSE Resolved(user, FALSE, users)

\* loginUser without the null-hash test: a row without a hash accepts any password
loginUserSkippingNullHash(email, password, fault) ==
    LET user == FindByEmail(email)
    IN  IF fault = "find" THEN Struck(fault, loginUserCatch(DbDown))
        ELSE IF user = NoUser
        THEN loginUserCatch(ThrownObject(401, JStr("Invalid email or password")))
        ELSE IF user.password_hash = NoHash THEN Resolved(user, FALSE, users)
        ELSE IF fault = "hash" THEN Struck(fault, loginUserCatch(HashError))
        ELSE IF ~BcryptCompare(password, user.password_hash)
        THEN loginUserCatch(ThrownObject(401, JStr("Invalid email or password")))
        ELSE Resolved(user, FALSE, users)

loginUser(email, password, fault) ==
    LET user == FindByEmail(email)
    IN  IF fault = "find" THEN Struck(fault, loginUserCatch(DbDown))
        ELSE IF user = NoUser \/ user.password_hash = NoHash
        THEN loginUserCatch(ThrownObject(401, JStr("Invalid email or password")))
        ELSE IF fault = "hash" THEN Struck(fault, loginUserCatch(HashError))
        ELSE IF ~BcryptCompare(password, user.password_hash)
        THEN loginUserCatch(ThrownObject(401, JStr("Invalid email or password")))
        ELSE Resolved(user, FALSE, users)

\* the catch blocks that rethrow { status: 500, error: message or the caught value }
Catch500(e) ==
    Rejected(500, IF e.instanceofError THEN JStr(e.message) ELSE JObj(e.status, e.error))

\* getMyUser's catch as it would be if it forgot the expiry error
getMyUserCatchInvalidOnly(e) ==
    IF e.name = "JsonWebTokenError"
    THEN Rejected(401, JStr("Invalid or expired token"))
    ELSE Catch500(e)

\* catch (error: any) of getMyUser
getMyUserCatch(e) ==
    IF e.name = "JsonWebTokenError" \/ e.name = "TokenExpiredError"
    THEN Rejected(401, JStr("Invalid or expired token"))
    ELSE Catch500(e)

\* the columns getMyUser selects: no created_at, no last_login
SelectProfile(u) == [u EXCEPT !.created_at = NoDate, !.last_login = NoDate]

\* getMyUser as it would be if it verified under either secret
getMyUserEitherSecret(token, fault) ==
    LET verdict == IF JwtVerify(token, env.REFRESH_TOKEN_SECRET, now) = "ok"
                   THEN "ok"
                   ELSE JwtVerify(token, env.ACCESS_TOKEN_SECRET, now)
        dbUser == FindById(token.userId)
    IN  IF verdict # "ok" THEN getMyUserCatch(ThrownError(verdict, "", "jwt error"))
        ELSE IF ~Truthy(token.userId)
        THEN getMyUserCatch(ThrownObject(401, JStr("Invalid token payload")))
        ELSE IF fault = "find" THEN Struck(fault, getMyUserCatch(DbDown))
        ELSE IF dbUser = NoUser THEN Resolved(NoUser, FALSE, users)
        ELSE Resolved(SelectProfile(dbUser), FALSE, users)

\* getMyUser as it would be if it took name and email from the token's claims,
\* where the token carries them
getMyUserTrustingClaims(token, fault) ==
    LET verdict == JwtVerify(token, env.ACCESS_TOKEN_SECRET, now)
        dbUser == FindById(token.userId)
        claimed == IF token.provider = "" THEN SelectProfile(dbUser)
                   ELSE [SelectProfile(dbUser) EXCEPT !.name = token.name,
                                                      !.email = token.email]
    IN  IF verdict # "ok" THEN getMyUserCatch(ThrownError(verdict, "", "jwt error"))
        ELSE IF ~Truthy(token.userId)
        THEN getMyUserCatch(ThrownObject(401, JStr("Invalid token payload")))
        ELSE IF fault = "find" THEN Struck(fault, getMyUserCatch(DbDown))
        ELSE IF dbUser = NoUser THEN Resolved(NoUser, FALSE, users)
        ELSE Resolved(claimed, FALSE, users)

getMyUser(token, fault) ==
    LET verdict == JwtVerify(token, env.ACCESS_TOKEN_SECRET, now)
        dbUser == FindById(token.userId)
    IN  IF verdict # "ok" THEN getMyUserCatch(ThrownError(verdict, "", "jwt error"))
        ELSE IF ~Truthy(token.userId)
        THEN getMyUserCatch(ThrownObject(401, JStr("Invalid token payload")))
        ELSE IF fault = "find" THEN Struck(fault, getMyUserCatch(DbDown))
        ELSE IF dbUser = NoUser THEN Resolved(NoUser, FALSE, users)
        ELSE Resolved(SelectProfile(dbUser), FALSE, users)

\* resolves to the row or to null (NoUser); has no catch of its own
getMyUserFromId(userId) == FindById(userId)

\* a password_hash column that holds the password itself
PlainText(password) == [alg |-> "plain", salt |-> "", cost |-> 0, key |-> password]

\* createUser's insert as it would be if it stored the password unhashed
createUserInsertStoringPlainText(name, email, password, salt, rnd, fault) ==
    LET newUser ==
            [id |-> Uuid(minted + 1), name |-> name, email |-> email,
             password_hash |-> PlainText(password),
             plan_id |-> DefaultPlanId,
             microsoft_id |-> [prefix |-> "temp_", id |-> Null, stamp |-> now, rnd |-> rnd],
             created_at |-> NoDate, last_login |-> NoDate]
    IN  IF fault = "hash" THEN Struck(fault, Catch500(HashError))
        ELSE IF fault = "write" THEN Struck(fault, Catch500(DbDown))
        ELSE IF EmailIndexRejects(email) THEN Catch500(DbUniqueEmail)
        ELSE Resolved(newUser, TRUE, users \cup {newUser})

\* createUser's insert as it would be if it tried a failed create once more
createUserInsertRetrying(name, email, password, salt, rnd, fault) ==
    LET newUser ==
            [id |-> Uuid(minted + 1), name |-> name, email |-> email,
             password_hash |-> BcryptHash(password, salt),
             plan_id |-> DefaultPlanId,
             microsoft_id |-> [prefix |-> "temp_", id |-> Null, stamp |-> now, rnd |-> rnd],
             created_at |-> NoDate, last_login |-> NoDate]
    IN  IF fault = "hash" THEN Struck(fault, Catch500(HashError))
        ELSE IF EmailIndexRejects(email) THEN Catch500(DbUniqueEmail)
        ELSE Struck(fault, Resolved(newUser, TRUE, users \cup {newUser}))

\* createUser from the hash on (lines 197-214), run against the table as it is
\* when the insert arrives; created_at and last_login take the column defaults
createUserInsert(name, email, password, salt, rnd, fault) ==
    LET newUser ==
            [id |-> Uuid(minted + 1), name |-> name, email |-> email,
             password_hash |-> BcryptHash(password, salt),
             plan_id |-> DefaultPlanId,
             microsoft_id |-> [prefix |-> "temp_", id |-> Null, stamp |-> now, rnd |-> rnd],
             created_at |-> NoDate, last_login |-> NoDate]
    IN  IF fault = "hash" THEN Struck(fault, Catch500(HashError))
        ELSE IF fault = "write" THEN Struck(fault, Catch500(DbDown))
        ELSE IF EmailIndexRejects(email) THEN Catch500(DbUniqueEmail)
        ELSE Resolved(newUser, TRUE, users \cup {newUser})

\* validation, the existence check, then the hash and the insert
createUser(name, email, password, salt, rnd, fault) ==
    LET issues == registerSchema(name, email, password)
    IN  IF issues # {} THEN Catch500(ThrownObject(400, JArr(issues)))
        ELSE IF fault = "find" THEN Struck(fault, Catch500(DbDown))
        ELSE IF FindByEmail(email) # NoUser
        THEN Catch500(ThrownObject(409, JStr("User with this email already exists.")))
        ELSE createUserInsert(name, email, password, salt, rnd, fault)

\* deleteUser as it would be if its catch did not single out P2025
deleteUserRethrowingNotFound(id, fault) ==
    IF fault = "write"
    THEN [Struck(fault, Catch500(DbDown)) EXCEPT !.isNewUser = FALSE]
    ELSE IF FindById(id) = NoUser
    THEN Catch500(DbNotFound)
    ELSE [ok |-> TRUE, deleted |-> TRUE, store |-> users \ {FindById(id)},
          fault |-> "none"]

\* resolves to true when the row was deleted, to false when prisma reports
\* P2025 (no such row), and rejects otherwise
deleteUser(id, fault) ==
    IF fault = "write"
    THEN [Struck(fault, Catch500(DbDown)) EXCEPT !.isNewUser = FALSE]
    ELSE IF FindById(id) = NoUser
    THEN [ok |-> TRUE, deleted |-> FALSE, store |-> users, fault |-> "none"]
    ELSE [ok |-> TRUE, deleted |-> TRUE, store |-> users \ {FindById(id)},
          fault |-> "none"]

\* findOrCreateMicrosoftUser as it would be without the last_login update
findOrCreateMicrosoftUserNoStamp(microsoft_id, name, email, fault) ==
    LET existingUser == FindById(microsoft_id)
        newUser ==
            [id |-> microsoft_id, name |-> name, email |-> email,
             password_hash |-> NoHash, plan_id |-> DefaultPlanId,
             microsoft_id |-> [prefix |-> "microsoft_", id |-> microsoft_id,
                               stamp |-> 0, rnd |-> ""],
             created_at |-> <<now>>, last_login |-> <<now>>]
    IN  IF fault = "find" THEN Struck(fault, Catch500(DbDown))
        ELSE IF existingUser # NoUser THEN Resolved(existingUser, FALSE, users)
        ELSE IF fault = "write" THEN Struck(fault, Catch500(DbDown))
        ELSE IF EmailIndexRejects(email) THEN Catch500(DbUniqueEmail)
        ELSE Resolved(newUser, TRUE, users \cup {newUser})

\* findOrCreateMicrosoftUser as it would be if the table had no unique index on
\* email: it goes on to create the account, as the comment at lines 280-283 says
findOrCreateMicrosoftUserNoUniqueIndex(microsoft_id, name, email, fault) ==
    LET existingUser == FindById(microsoft_id)
        updated == [existingUser EXCEPT !.last_login = <<now>>]
        newUser ==
            [id |-> microsoft_id, name |-> name, email |-> email,
             password_hash |-> NoHash, plan_id |-> DefaultPlanId,
             microsoft_id |-> [prefix |-> "microsoft_", id |-> microsoft_id,
                               stamp |-> 0, rnd |-> ""],
             created_at |-> <<now>>, last_login |-> <<now>>]
    IN  IF fault = "find" THEN Struck(fault, Catch500(DbDown))
        ELSE IF existingUser # NoUser
        THEN IF fault = "write" THEN Struck(fault, Catch500(DbDown))
             ELSE Resolved(updated, FALSE, (users \ {existingUser}) \cup {updated})
        ELSE IF fault = "write" THEN Struck(fault, Catch500(DbDown))
        ELSE Resolved(newUser, TRUE, users \cup {newUser})

\* findOrCreateMicrosoftUser as it would be if the update also took the
\* display name from the request
findOrCreateMicrosoftUserSyncingName(microsoft_id, name, email, fault) ==
    LET existingUser == FindById(microsoft_id)
        updated == [existingUser EXCEPT !.last_login = <<now>>, !.name = name]
        newUser ==
            [id |-> microsoft_id, name |-> name, email |-> email,
             password_hash |-> NoHash, plan_id |-> DefaultPlanId,
             microsoft_id |-> [prefix |-> "microsoft_", id |-> microsoft_id,
                               stamp |-> 0, rnd |-> ""],
             created_at |-> <<now>>, last_login |-> <<now>>]
    IN  IF fault = "find" THEN Struck(fault, Catch500(DbDown))
        ELSE IF existingUser # NoUser
        THEN IF fault = "write" THEN Struck(fault, Catch500(DbDown))
             ELSE Resolved(updated, FALSE, (users \ {existingUser}) \cup {updated})
        ELSE IF fault = "write" THEN Struck(fault, Catch500(DbDown))
        ELSE IF EmailIndexRejects(email) THEN Catch500(DbUniqueEmail)
        ELSE Resolved(newUser, TRUE, users \cup {newUser})

\* findOrCreateMicrosoftUser's create as it would be if it fell back on the
\* row that is there when the insert finds the id taken
findOrCreateMicrosoftUserCreateOrFind(microsoft_id, name, email, fault) ==
    LET newUser ==
            [id |-> microsoft_id, name |-> name, email |-> email,
             password_hash |-> NoHash, plan_id |-> DefaultPlanId,
             microsoft_id |-> [prefix |-> "microsoft_", id |-> microsoft_id,
                               stamp |-> 0, rnd |-> ""],
             created_at |-> <<now>>, last_login |-> <<now>>]
    IN  IF fault = "write" THEN Struck(fault, Catch500(DbDown))
        ELSE IF PrimaryKeyRejects(microsoft_id)
        THEN Resolved(FindById(microsoft_id), FALSE, users)
        ELSE IF EmailIndexRejects(email) THEN Catch500(DbUniqueEmail)
        ELSE Resolved(newUser, TRUE, users \cup {newUser})

\* findOrCreateMicrosoftUser from the create on (lines 310-344), run against
\* the table as it is when the insert arrives
findOrCreateMicrosoftUserCreate(microsoft_id, name, email, fault) ==
    LET newUser ==
            [id |-> microsoft_id, name |-> name, email |-> email,
             password_hash |-> NoHash, plan_id |-> DefaultPlanId,
             microsoft_id |-> [prefix |-> "microsoft_", id |-> microsoft_id,
                               stamp |-> 0, rnd |-> ""],
             created_at |-> <<now>>, last_login |-> <<now>>]
    IN  IF fault = "write" THEN Struck(fault, Catch500(DbDown))
        ELSE IF PrimaryKeyRejects(microsoft_id) THEN Catch500(DbUniqueId)
        ELSE IF EmailIndexRejects(email) THEN Catch500(DbUniqueEmail)
        ELSE Resolved(newUser, TRUE, users \cup {newUser})

findOrCreateMicrosoftUser(microsoft_id, name, email, fault) ==
    LET existingUser == FindById(microsoft_id)
        updated == [existingUser EXCEPT !.last_login = <<now>>]
    IN  IF fault = "find" THEN Struck(fault, Catch500(DbDown))
        \* the lookup by email between the two (lines 273-284) changes nothing
        ELSE IF existingUser # NoUser
        THEN IF fault = "write" THEN Struck(fault, Catch500(DbDown))
             ELSE Resolved(updated, FALSE, (users \ {existingUser}) \cup {updated})
        ELSE findOrCreateMicrosoftUserCreate(microsoft_id, name, email, fault)

----------------------------------------------------------------------------
(* Requests and responses *)

NoData ==
    [kind |-> "none", id |-> Null, email |-> Null, name |-> Null, plan_id |-> "",
     accessToken |-> NoToken, refreshToken |-> NoToken, user |-> NoUser]

\* the data object of login, register and microsoft-auth
AuthData(user, accessToken, refreshToken) ==
    [kind |-> "auth", id |-> user.id, email |-> user.email, name |-> user.name,
     plan_id |-> user.plan_id, accessToken |-> accessToken,
     refreshToken |-> refreshToken, user |-> NoUser]

\* res.cookie(name, value, { httpOnly, sameSite: 'strict', maxAge, path: '/' })
SetCookie(name, value, maxAge) ==
    [name |-> name, value |-> value, maxAge |-> maxAge, httpOnly |-> TRUE,
     secure |-> (env.NODE_ENV = "production"),
     sameSite |-> "strict", path |-> "/", cleared |-> FALSE]

\* res.clearCookie(name, { httpOnly, sameSite: 'strict', path: '/' })
ClearCookie(name) ==
    [name |-> name, value |-> NoToken, maxAge |-> 0, httpOnly |-> TRUE,
     secure |-> (env.NODE_ENV = "production"),
     sameSite |-> "strict", path |-> "/", cleared |-> TRUE]

\* the accessToken cookie's max-age as it would be if it were one hour
AccessCookieMaxAgeOneHour == 1000 * 60 * 60

AccessCookieMaxAge == 1000 * 60 * 60 * 24

RefreshCookieMaxAge == 1000 * 60 * 60 * 24 * 7

Request(op, name, email, password, id, token, fault) ==
    [op |-> op, name |-> name, email |-> email, password |-> password,
     id |-> id, token |-> token, fault |-> fault]

NoRequest == Request("", Null, Null, Null, Null, NoToken, "none")

\* no response in flight
NoResponse ==
    [status |-> 0, success |-> FALSE, error |-> JNone, message |-> "",
     data |-> NoData, cookies |-> {}]

\* the server is idle and may take the next request
Idle == resp = NoResponse /\ steps < MaxSteps

Success(st, message, data, cookies) ==
    [status |-> st, success |-> TRUE, error |-> JNone, message |-> message,
     data |-> data, cookies |-> cookies]

Failure(st, error) ==
    [status |-> st, success |-> FALSE, error |-> error, message |-> "",
     data |-> NoData, cookies |-> {}]

\* the access and refresh token signed for a user by login, register, microsoft-auth
AccessTokenFor(user, provider) ==
    JwtSign([userId |-> user.id, email |-> user.email, name |-> user.name,
             provider |-> provider],
            env.ACCESS_TOKEN_SECRET, AccessTtlSec, now)

RefreshTokenFor(user) ==
    JwtSign([userId |-> user.id, email |-> Null, name |-> Null, provider |-> ""],
            env.REFRESH_TOKEN_SECRET, RefreshTtlSec, now)

\* the tail shared by login, register and microsoft-auth: sign both tokens,
\* set both cookies, send the body
SendTokens(st, user, provider, message) ==
    LET accessToken == AccessTokenFor(user, provider)
        refreshToken == RefreshTokenFor(user)
    IN  Success(st, message, AuthData(user, accessToken, refreshToken),
                {SetCookie("accessToken", accessToken, AccessCookieMaxAge),
                 SetCookie("refreshToken", refreshToken, RefreshCookieMaxAge)})

\* what a response hands to the client
TokensOf(r) ==
    {r.data.accessToken, r.data.refreshToken} \ {NoToken}

----------------------------------------------------------------------------
(* The values requests are drawn from *)

NameA == <<"A">>

NameAna == <<"A", "n", "a">>

NameBo == <<"B", "o">>

EmailAna == <<"a", "n", "a", "@", "m", ".", "c", "o">>

EmailMalformed == <<"a", "n", "a", ".", "m", ".", "c", "o">>

PwShort == <<"s", "e", "c", "r", "e">>

PwSecret == <<"s", "e", "c", "r", "e", "t", "1">>

\* two passwords that agree on their first 72 characters and differ after
PwLongB == Rep("a", BcryptMaxBytes) \o <<"b">>

PwLongC == Rep("a", BcryptMaxBytes) \o <<"c">>

MsId == <<"m", "s", "-", "o", "i", "d", "-", "0", "0", "0", "1">>

RegisterNames == {Null, NameA, NameAna}

RegisterEmails == {EmailMalformed, EmailAna}

RegisterPasswords == {PwShort, PwSecret, PwLongB}

LoginEmails == {Null, EmailAna}

LoginPasswords == {Null, PwSecret, PwLongB, PwLongC}

\* the subject id of a Microsoft account, or an id a response has shown
OAuthIds == {MsId} \cup {u.id : u \in users}

OAuthNames == {Null, NameAna, NameBo}

OAuthEmails == {Null, EmailAna}

ShortId == <<"4", "2">>

\* an id too short, an id a response has shown (its row may be gone by now)
DeleteIds ==
    {ShortId, MsId} \cup {u.id : u \in users} \cup {Uuid(n) : n \in 1..minted}

\* the random draws of bcrypt's salt and of the temp_ suffix: no handler reads
\* their value, so one representative each
Salts == {"salt1"}

RandomSuffixes == {"k3x9q"}

Secrets == {"key1", "key2"}

\* what a client can put in the Authorization header or the refreshToken
\* cookie: nothing, a token it was given, or such a token with its signature altered
Presentable == {NoToken} \cup issued \cup {Tamper(t) : t \in issued}

DayMs == 24 * 60 * 60 * 1000

\* clock advances: the access validity, the refresh validity
TickSteps == {AccessTtlSec * 1000, RefreshTtlSec * 1000}

----------------------------------------------------------------------------
(* The route handlers: each yields the response, the table it leaves, the  *)
(* number of generated keys, and the injected failure that struck, if any  *)

Outcome(response, store, keys, fault) ==
    [resp |-> response, store |-> store, minted |-> keys, fault |-> fault]

\* err.status || 500
StatusOr500(st) == IF st # 0 THEN st ELSE 500

\* router.get('/me'): token is the bearer token, NoToken when the header is
\* missing or not a Bearer header
meRoute(token, fault) ==
    LET r == getMyUser(token, fault)
    IN  IF token = NoToken
        THEN Outcome(Failure(401, JStr("Access token missing or invalid")),
                     users, minted, "none")
        ELSE IF r.ok
        THEN Outcome(Success(200, "User retrieved successfully",
                             IF r.user = NoUser THEN NoData
                             ELSE [NoData EXCEPT !.kind = "user", !.user = r.user],
                             {}),
                     users, minted, "none")
        ELSE Outcome(Failure(StatusOr500(r.status), JStr("Failed to retrieve user")),
                     users, minted, r.fault)

\* router.post('/login')
loginRoute(email, password, fault) ==
    LET r == loginUser(email, password, fault)
    IN  IF ~Truthy(email) \/ ~Truthy(password)
        THEN Outcome(Failure(400, JStr("Email and password are required")),
                     users, minted, "none")
        ELSE IF ~r.ok
        THEN Outcome(Failure(StatusOr500(r.status),
                             OrElse(r.error, JStr("Failed to login user"))),
                     users, minted, r.fault)
        ELSE Outcome(SendTokens(200, r.user, "email", "Login successful"),
                     users, minted, "none")

\* /refresh as it would be if it rotated the refresh token as well
refreshRouteRotating(token, fault) ==
    LET verdict == JwtVerify(token, env.REFRESH_TOKEN_SECRET, now)
        user == getMyUserFromId(token.userId)
        accessToken == AccessTokenFor(user, "email")
        refreshToken == RefreshTokenFor(user)
    IN  IF token = NoToken
        THEN Outcome(Failure(401, JStr("Refresh token missing")), users, minted, "none")
        ELSE IF verdict # "ok"
        THEN Outcome(Failure(401, JStr("Invalid or expired refresh token")),
                     users, minted, "none")
        ELSE IF fault = "find" \/ ~Truthy(token.userId)
        THEN Outcome(Failure(500, JStr("Failed to refresh token")), users, minted,
                     IF fault = "find" THEN fault ELSE "none")
        ELSE IF user = NoUser
        THEN Outcome(Failure(401, JStr("User not found")), users, minted, "none")
        ELSE Outcome(Success(200, "",
                             [NoData EXCEPT !.kind = "refresh",
                                            !.accessToken = accessToken,
                                            !.refreshToken = refreshToken,
                                            !.user = user],
                             {SetCookie("accessToken", accessToken, AccessCookieMaxAge),
                              SetCookie("refreshToken", refreshToken, RefreshCookieMaxAge)}),
                     users, minted, "none")

\* router.post('/refresh'): token is the refreshToken cookie
refreshRoute(token, fault) ==
    LET verdict == JwtVerify(token, env.REFRESH_TOKEN_SECRET, now)
        user == getMyUserFromId(token.userId)
        accessToken == AccessTokenFor(user, "email")
    IN  IF token = NoToken
        THEN Outcome(Failure(401, JStr("Refresh token missing")), users, minted, "none")
        ELSE IF verdict # "ok"
        THEN Outcome(Failure(401, JStr("Invalid or expired refresh token")),
                     users, minted, "none")
        ELSE IF fault = "find" \/ ~Truthy(token.userId)
        THEN Outcome(Failure(500, JStr("Failed to refresh token")), users, minted,
                     IF fault = "find" THEN fault ELSE "none")
        ELSE IF user = NoUser
        THEN Outcome(Failure(401, JStr("User not found")), users, minted, "none")
        ELSE Outcome(Success(200, "",
                             [NoData EXCEPT !.kind = "refresh",
                                            !.accessToken = accessToken,
                                            !.user = user],
                             {SetCookie("accessToken", accessToken, AccessCookieMaxAge)}),
                     users, minted, "none")

\* /logout as it would be if it took the catch branch
logoutRouteFailing ==
    Outcome(Failure(500, JStr("Failed to logout user")), users, minted, "none")

\* router.post('/logout')
logoutRoute ==
    Outcome(Success(200, "Logout successful", NoData,
                    {ClearCookie("accessToken"), ClearCookie("refreshToken")}),
            users, minted, "none")

\* /register once createUser has settled with r (lines 283-351)
registerRouteSettled(r) ==
    IF ~r.ok
    THEN Outcome(Failure(StatusOr500(r.status),
                         OrElse(r.error, JStr("Failed to create user in db"))),
                 users, minted, r.fault)
    ELSE Outcome(SendTokens(201, r.user, "email", "User created successfully"),
                 r.store, minted + 1, r.fault)

\* router.post('/register')
registerRoute(name, email, password, salt, rnd, fault) ==
    IF ~Truthy(name) \/ ~Truthy(email) \/ ~Truthy(password)
    THEN Outcome(Failure(400, JStr("Name, email, and password are required")),
                 users, minted, "none")
    ELSE registerRouteSettled(createUser(name, email, password, salt, rnd, fault))

MinDeleteIdLen == 10

\* router.delete('/:id')
deleteRoute(id, fault) ==
    LET r == deleteUser(id, fault)
    IN  IF ~Truthy(id) \/ Len(id) < MinDeleteIdLen
        THEN Outcome(Failure(400, JStr("Invalid user ID")), users, minted, "none")
        ELSE IF ~r.ok
        THEN Outcome(Failure(500, JStr("Failed to delete user")), users, minted, r.fault)
        ELSE IF ~r.deleted
        THEN Outcome(Failure(404, JStr("User not found")), users, minted, "none")
        ELSE Outcome(Success(200, "User deleted successfully", NoData, {}),
                     r.store, minted, "none")

\* /microsoft-auth once findOrCreateMicrosoftUser has settled with r
\* (lines 431-498)
microsoftAuthRouteSettled(r) ==
    IF ~r.ok
    THEN Outcome(Failure(StatusOr500(r.status),
                         OrElse(r.error,
                                JStr("Failed to process Microsoft authentication"))),
                 users, minted, r.fault)
    ELSE Outcome(SendTokens(200, r.user, "microsoft",
                            IF r.isNewUser THEN "User created successfully"
                            ELSE "User authenticated successfully"),
                 r.store, minted, "none")

\* router.post('/microsoft-auth')
microsoftAuthRoute(microsoft_id, name, email, fault) ==
    IF ~Truthy(microsoft_id) \/ ~Truthy(name)
    THEN Outcome(Failure(400, JStr("Microsoft ID and name are required")),
                 users, minted, "none")
    ELSE microsoftAuthRouteSettled(
             findOrCreateMicrosoftUser(
                 microsoft_id, name,
                 IF Truthy(email) THEN email ELSE microsoft_id \o OAuthSuffix, fault))

\* errorHandler (middlewares/errorHandler.ts): the handler express falls back
\* on for an error passed to next(); statusCode is res.statusCode.  The user
\* routes catch every error themselves and never pass one on.
errorHandler(err, statusCode) ==
    [status |-> IF statusCode # 200 THEN statusCode ELSE 500,
     success |-> FALSE,
     error |-> IF env.NODE_ENV = "production" THEN JStr("Something went wrong!")
               ELSE JStr(err.message),
     message |-> "An error occurred while processing your request",
     data |-> NoData, cookies |-> {}]

\* The store and hash calls a handler awaits, in order, for request r with the
\* injected failure striking at `fault`; the call that fails is the last one
\* because every await sits in a try block whose catch rethrows.
AwaitedCalls(r, fault) ==
    IF r.op = "register"
    THEN IF ~Truthy(r.name) \/ ~Truthy(r.email) \/ ~Truthy(r.password) THEN <<>>
         ELSE IF registerSchema(r.name, r.email, r.password) # {} THEN <<>>
         ELSE IF fault = "find" \/ FindByEmail(r.email) # NoUser
         THEN <<"findUnique(email)">>
         ELSE IF fault = "hash" THEN <<"findUnique(email)", "hash">>
         ELSE <<"findUnique(email)", "hash", "create">>
    ELSE IF r.op = "login"
    THEN IF ~Truthy(r.email) \/ ~Truthy(r.password) THEN <<>>
         ELSE IF \/ fault = "find"
                 \/ FindByEmail(r.email) = NoUser
                 \/ FindByEmail(r.email).password_hash = NoHash
         THEN <<"findUnique(email)">>
         ELSE <<"findUnique(email)", "compare">>
    ELSE IF r.op = "microsoft-auth"
    THEN IF ~Truthy(r.id) \/ ~Truthy(r.name) THEN <<>>
         ELSE IF fault = "find" THEN <<"findUnique(id)">>
         ELSE IF FindById(r.id) # NoUser THEN <<"findUnique(id)", "update">>
         ELSE IF Truthy(r.email) /\ r.email # r.id \o OAuthSuffix
         THEN <<"findUnique(id)", "findUnique(email)", "create">>
         ELSE <<"findUnique(id)", "create">>
    ELSE IF r.op = "delete"
    THEN IF ~Truthy(r.id) \/ Len(r.id) < MinDeleteIdLen THEN <<>> ELSE <<"delete">>
    ELSE IF r.op = "refresh"
    THEN IF r.token = NoToken \/ JwtVerify(r.token, env.REFRESH_TOKEN_SECRET, now) # "ok"
         THEN <<>> ELSE <<"findUnique(id)">>
    ELSE IF r.op = "me"
    THEN IF \/ r.token = NoToken
            \/ JwtVerify(r.token, env.ACCESS_TOKEN_SECRET, now) # "ok"
            \/ ~Truthy(r.token.userId)
         THEN <<>> ELSE <<"findUnique(id)">>
    ELSE <<>>

\* the calls of each kind of injected failure
CallsOfFault(fault) ==
    IF fault = "find" THEN {"findUnique(email)", "findUnique(id)"}
    ELSE IF fault = "hash" THEN {"hash", "compare"}
    ELSE IF fault = "write" THEN {"create", "update", "delete"}
    ELSE {}

----------------------------------------------------------------------------
(* The state machine *)

\* one request answered: the response is sent, the table and the key counter
\* are as the handler left them
Answer(request, out) ==
    /\ req' = [request EXCEPT !.fault = out.fault]
    /\ resp' = out.resp
    /\ users' = out.store
    /\ minted' = out.minted
    /\ steps' = steps + 1
    /\ UNCHANGED <<env, now, issued, inflight, crm>>


Init ==
    /\ users = {}
    /\ env \in [ACCESS_TOKEN_SECRET : {"key1"}, REFRESH_TOKEN_SECRET : Secrets,
                NODE_ENV : {"production", "development"}]
    /\ now = 0
    /\ minted = 0
    /\ issued = {}
    /\ inflight = {}
    /\ req = NoRequest
    /\ resp = NoResponse
    /\ steps = 0
    /\ crm = EmptyCrm

Me ==
    /\ Idle
    /\ \E token \in Presentable, fault \in {"none", "find"} :
        Answer(Request("me", Null, Null, Null, Null, token, fault),
               meRoute(token, fault))

Login ==
    /\ Idle
    /\ \E email \in LoginEmails, password \in LoginPasswords,
          fault \in {"none", "find", "hash"} :
        Answer(Request("login", Null, email, password, Null, NoToken, fault),
               loginRoute(email, password, fault))

Refresh ==
    /\ Idle
    /\ \E token \in Presentable, fault \in {"none", "find"} :
        Answer(Request("refresh", Null, Null, Null, Null, token, fault),
               refreshRoute(token, fault))

Logout ==
    /\ Idle
    /\ Answer(Request("logout", Null, Null, Null, Null, NoToken, "none"), logoutRoute)

Register ==
    /\ Idle
    /\ \E name \in RegisterNames, email \in RegisterEmails,
          password \in RegisterPasswords, salt \in Salts, rnd \in RandomSuffixes,
          fault \in Faults :
        Answer(Request("register", name, email, password, Null, NoToken, fault),
               registerRoute(name, email, password, salt, rnd, fault))

DeleteUser ==
    /\ Idle
    /\ \E id \in DeleteIds, fault \in {"none", "write"} :
        Answer(Request("delete", Null, Null, Null, id, NoToken, fault),
               deleteRoute(id, fault))

MicrosoftAuth ==
    /\ Idle
    /\ \E id \in OAuthIds, name \in OAuthNames, email \in OAuthEmails,
          fault \in {"none", "find", "write"} :
        Answer(Request("microsoft-auth", name, email, Null, id, NoToken, fault),
               microsoftAuthRoute(id, name, email, fault))

\* time passes between requests
Tick ==
    /\ Idle
    /\ \E d \in TickSteps :
        /\ now + d <= MaxDays * DayMs
        /\ now' = now + d
        /\ steps' = steps + 1
        /\ UNCHANGED <<users, env, minted, issued, inflight, req, resp, crm>>

\* the response reaches the client, which keeps the tokens it carries
Receive ==
    /\ resp # NoResponse
    /\ issued' = issued \cup TokensOf(resp)
    /\ req' = NoRequest
    /\ resp' = NoResponse
    /\ UNCHANGED <<users, env, now, minted, inflight, steps, crm>>

Next ==
    \/ Receive
    \/ Me
    \/ Login
    \/ Refresh
    \/ Logout
    \/ Register
    \/ DeleteUser
    \/ MicrosoftAuth
    \/ Tick

Spec == Init /\ [][Next]_vars

----------------------------------------------------------------------------
(* Requests that overlap: createUser awaits the existence check, the hash  *)
(* and the insert, and another request may run between them                *)

\* a register request runs up to the end of its existence check
\* (lines 275-281 of the route, 182-195 of the service) and finds the email free
RegisterCheck ==
    /\ Idle
    /\ Cardinality(inflight) < MaxInflight
    /\ \E name \in RegisterNames, email \in RegisterEmails,
          password \in RegisterPasswords, salt \in Salts, rnd \in RandomSuffixes :
        /\ Truthy(name) /\ Truthy(email) /\ Truthy(password)
        /\ registerSchema(name, email, password) = {}
        /\ FindByEmail(email) = NoUser
        /\ inflight' = inflight \cup
                          {[op |-> "register", ticket |-> steps, id |-> Null,
                            name |-> name, email |-> email,
                            password |-> password, salt |-> salt, rnd |-> rnd]}
    /\ steps' = steps + 1
    /\ UNCHANGED <<users, env, now, minted, issued, req, resp, crm>>

\* a request past its check hashes, inserts and is answered
RegisterInsert ==
    /\ resp = NoResponse
    /\ \E r \in {i \in inflight : i.op = "register"} :
        LET out == registerRouteSettled(
                       createUserInsert(r.name, r.email, r.password, r.salt, r.rnd,
                                        "none"))
        IN  /\ req' = Request("register", r.name, r.email, r.password, Null,
                              NoToken, "none")
            /\ resp' = out.resp
            /\ users' = out.store
            /\ minted' = out.minted
            /\ inflight' = inflight \ {r}
    /\ UNCHANGED <<env, now, issued, steps, crm>>

\* a microsoft-auth request runs up to the end of its lookup by id
\* (lines 415-421 of the route, 265-270 of the service) and finds no row
MicrosoftAuthCheck ==
    /\ Idle
    /\ Cardinality(inflight) < MaxInflight
    /\ \E id \in OAuthIds, name \in OAuthNames, email \in OAuthEmails :
        /\ Truthy(id) /\ Truthy(name)
        /\ FindById(id) = NoUser
        /\ inflight' = inflight \cup
                          {[op |-> "microsoft-auth", ticket |-> steps, id |-> id,
                            name |-> name, email |-> email,
                            password |-> Null, salt |-> "", rnd |-> ""]}
    /\ steps' = steps + 1
    /\ UNCHANGED <<users, env, now, minted, issued, req, resp, crm>>

\* a request past its lookup creates the row and is answered
MicrosoftAuthInsert ==
    /\ resp = NoResponse
    /\ \E r \in {i \in inflight : i.op = "microsoft-auth"} :
        LET out == microsoftAuthRouteSettled(
                       findOrCreateMicrosoftUserCreate(
                           r.id, r.name,
                           IF Truthy(r.email) THEN r.email ELSE r.id \o OAuthSuffix,
                           "none"))
        IN  /\ req' = Request("microsoft-auth", r.name, r.email, Null, r.id,
                              NoToken, "none")
            /\ resp' = out.resp
            /\ users' = out.store
            /\ minted' = out.minted
            /\ inflight' = inflight \ {r}
    /\ UNCHANGED <<env, now, issued, steps, crm>>

\* every register and microsoft-auth request runs in its two parts, with
\* any other request's parts between them
RaceNext ==
    \/ Receive
    \/ RegisterCheck
    \/ RegisterInsert
    \/ MicrosoftAuthCheck
    \/ MicrosoftAuthInsert
    \/ DeleteUser

RaceSpec == Init /\ [][RaceNext]_vars

----------------------------------------------------------------------------
(* One session followed to its end: one sign-in, then refreshes as the     *)
(* clock moves in steps shorter than an access token lives                 *)

\* the clock step of a followed session: 23 hours
SessionTickMs == 23 * 60 * 60 * 1000

\* the one sign-in of the session: a Register that succeeds
SessionRegister ==
    /\ Idle
    /\ users = {} /\ issued = {}
    /\ \E salt \in Salts, rnd \in RandomSuffixes :
        Answer(Request("register", NameAna, EmailAna, PwSecret, Null, NoToken, "none"),
               registerRoute(NameAna, EmailAna, PwSecret, salt, rnd, "none"))

\* /refresh with any token the client holds, as often as it likes
SessionRefresh ==
    /\ resp = NoResponse
    /\ \E token \in issued :
        LET out == refreshRoute(token, "none")
        IN  /\ req' = Request("refresh", Null, Null, Null, Null, token, out.fault)
            /\ resp' = out.resp
            /\ users' = out.store
            /\ minted' = out.minted
    /\ UNCHANGED <<env, now, issued, inflight, steps, crm>>

SessionTick ==
    /\ resp = NoResponse
    /\ now + SessionTickMs <= MaxDays * DayMs
    /\ now' = now + SessionTickMs
    /\ UNCHANGED <<users, env, minted, issued, inflight, req, resp, steps, crm>>

SessionNext ==
    \/ Receive
    \/ SessionRegister
    \/ SessionRefresh
    \/ SessionTick

SessionSpec == Init /\ [][SessionNext]_vars

----------------------------------------------------------------------------
(* Shorthands for the properties *)

\* the request in req was fully formed and no injected failure struck
Plain(op) == req.op = op /\ req.fault = "none"

\* the step from an idle server to the answer of an `op` request
Answering(op) == resp = NoResponse /\ req'.op = op /\ req'.fault = "none"

ValidSignature(token, secret) == token.sig = [key |-> secret, intact |-> TRUE]

Expired(token) == (now \div 1000) >= token.exp

RowsWithEmail(email) == {u \in users : u.email = email}

----------------------------------------------------------------------------
(* C1: a Register whose email is already held by a row is answered 409     *)
(* Conflict and the table keeps exactly one row with that email.           *)
(* The code answers 500: createUser's own catch block rethrows its 409.    *)

C1_DuplicateRegisterIs409 ==
    ( /\ Plain("register")
      /\ Truthy(req.name)
      /\ registerSchema(req.name, req.email, req.password) = {}
      /\ ~resp.success )
    => ( /\ resp.status = 409
         /\ Cardinality(RowsWithEmail(req.email)) = 1 )

(* C2: a Register with a name under 2 characters, a malformed email or a   *)
(* password under 6 characters is answered 400, creates no row and issues  *)
(* no token.  The code answers 500 when the schema is what rejects it.     *)

C2_InvalidRegisterIs400 ==
    [][ ( /\ Answering("register")
          /\ \/ Len(req'.name) < MinNameLen
             \/ ~IsEmail(req'.email)
             \/ Len(req'.password) < MinPasswordLen )
        => ( /\ resp'.status = 400
             /\ users' = users
             /\ TokensOf(resp') = {} ) ]_vars

\* the password a row was registered with (the requests offer one per key)
RegisteredPassword(row) ==
    CHOOSE p \in RegisterPasswords :
        BcryptHash(p, row.password_hash.salt) = row.password_hash

(* C3: Register followed by Login(email, q) returns Register's user id when *)
(* q is the registered password and is answered 401 when q differs from it.*)
(* The code accepts a q that differs only after the 72nd character.        *)

C3_LoginAcceptsOnlyRegisteredPassword ==
    ( /\ Plain("login")
      /\ Truthy(req.email) /\ Truthy(req.password)
      /\ FindByEmail(req.email) # NoUser
      /\ FindByEmail(req.email).password_hash # NoHash )
    => LET row == FindByEmail(req.email)
       IN  IF req.password = RegisteredPassword(row)
           THEN resp.status = 200 /\ resp.data.id = row.id
           ELSE resp.status = 401

(* C4: Login is answered 401 when no row has the email, when the row has   *)
(* no password hash, and when the password does not match the hash, with   *)
(* the same status and the same error text in all three cases.             *)

C4_LoginFailuresIndistinguishable ==
    ( /\ Plain("login")
      /\ Truthy(req.email) /\ Truthy(req.password)
      /\ \/ FindByEmail(req.email) = NoUser
         \/ FindByEmail(req.email).password_hash = NoHash
         \/ ~BcryptCompare(req.password, FindByEmail(req.email).password_hash) )
    => resp = Failure(401, JStr("Invalid email or password"))

\* a login against an account that microsoft-auth created has been refused
C4_Witness ==
    /\ Plain("login")
    /\ FindByEmail(req.email) # NoUser
    /\ FindByEmail(req.email).password_hash = NoHash
    /\ resp.status = 401

(* C5: /me answers 401 and returns no user data for every token whose      *)
(* signature does not verify under the access secret and for every access  *)
(* token presented at or after its expiry.                                 *)

C5_BadOrExpiredTokenIs401 ==
    ( /\ req.op = "me"
      /\ req.token # NoToken
      /\ \/ ~ValidSignature(req.token, env.ACCESS_TOKEN_SECRET)
         \/ Expired(req.token) )
    => ( /\ resp.status = 401
         /\ ~resp.success
         /\ resp.data = NoData )

\* an access token with a good signature was presented after it expired
C5_Witness ==
    /\ req.op = "me"
    /\ ValidSignature(req.token, env.ACCESS_TOKEN_SECRET)
    /\ req.token.provider # ""
    /\ Expired(req.token)
    /\ FindById(req.token.userId) # NoUser
    /\ resp.status = 401

(* C6: with two different signing secrets, /me answers 401 to every token  *)
(* signed as a refresh token and /refresh answers 401 to every token       *)
(* signed as an access token.                                              *)

C6_TokenKindsNotInterchangeable ==
    (env.ACCESS_TOKEN_SECRET # env.REFRESH_TOKEN_SECRET)
    => ( /\ ( req.op = "me" /\ ValidSignature(req.token, env.REFRESH_TOKEN_SECRET) )
            => ( resp.status = 401 /\ resp.data = NoData )
         /\ ( req.op = "refresh" /\ ValidSignature(req.token, env.ACCESS_TOKEN_SECRET) )
            => ( resp.status = 401 /\ TokensOf(resp) = {} ) )

\* an unexpired refresh token of an existing user was presented to /me
C6_Witness ==
    /\ env.ACCESS_TOKEN_SECRET # env.REFRESH_TOKEN_SECRET
    /\ req.op = "me"
    /\ ValidSignature(req.token, env.REFRESH_TOKEN_SECRET)
    /\ ~Expired(req.token)
    /\ FindById(req.token.userId) # NoUser
    /\ resp.status = 401

(* C7: /me with a valid, unexpired access token answers 200 with the row   *)
(* as the table holds it now, whatever name and email the token carries,   *)
(* and answers 200 without data, not an error, when the row is gone.       *)

ProfileColumns == {"id", "plan_id", "name", "email", "password_hash", "microsoft_id"}

C7_MeReturnsCurrentRowOrNull ==
    ( /\ Plain("me")
      /\ ValidSignature(req.token, env.ACCESS_TOKEN_SECRET)
      /\ ~Expired(req.token)
      /\ Truthy(req.token.userId) )
    => ( /\ resp.status = 200
         /\ resp.success
         /\ IF FindById(req.token.userId) = NoUser
            THEN resp.data = NoData
            ELSE \A c \in ProfileColumns :
                    resp.data.user[c] = FindById(req.token.userId)[c] )

\* the token's user was deleted and /me answered 200 without data
C7_Witness ==
    /\ Plain("me")
    /\ ValidSignature(req.token, env.ACCESS_TOKEN_SECRET)
    /\ ~Expired(req.token)
    /\ Truthy(req.token.userId)
    /\ FindById(req.token.userId) = NoUser
    /\ resp.status = 200
    /\ resp.data = NoData

\* the row was deleted and created again under another name after the token
\* was signed, and /me answered with the name the table holds
C7_StaleClaimsReached ==
    /\ Plain("me")
    /\ resp.success
    /\ resp.data.user # NoUser
    /\ req.token.provider # ""
    /\ resp.data.user.name # req.token.name

(* C8: /refresh answers 401 when the refresh token is missing, invalid or  *)
(* expired or its user is gone; otherwise it issues one access token for   *)
(* that user, no refresh token, and sets only the accessToken cookie.      *)

C8_RefreshIssuesAccessTokenOnly ==
    Plain("refresh")
    => IF \/ req.token = NoToken
          \/ ~ValidSignature(req.token, env.REFRESH_TOKEN_SECRET)
          \/ Expired(req.token)
          \/ FindById(req.token.userId) = NoUser
       THEN /\ resp.status = 401
            /\ TokensOf(resp) = {}
            /\ resp.cookies = {}
       ELSE /\ resp.status = 200
            /\ TokensOf(resp) = {resp.data.accessToken}
            /\ resp.data.accessToken.userId = req.token.userId
            /\ ValidSignature(resp.data.accessToken, env.ACCESS_TOKEN_SECRET)
            /\ resp.data.accessToken.exp = (now \div 1000) + AccessTtlSec
            /\ resp.data.refreshToken = NoToken
            /\ {c.name : c \in resp.cookies} = {"accessToken"}
            /\ \A c \in resp.cookies : c.value = resp.data.accessToken

\* a refresh succeeded
C8_Witness ==
    /\ Plain("refresh")
    /\ resp.status = 200
    /\ resp.data.accessToken # NoToken

(* C9: Logout is always answered 200 success and changes nothing on the    *)
(* server: every token handed out before is answered by /me and /refresh   *)
(* exactly as it was before the Logout.                                    *)

C9_LogoutChangesNothing ==
    [][ Answering("logout")
        => ( /\ resp'.status = 200
             /\ resp'.success
             /\ users' = users
             /\ env' = env
             /\ \A t \in issued :
                   /\ meRoute(t, "none")' = meRoute(t, "none")
                   /\ refreshRoute(t, "none")' = refreshRoute(t, "none") ) ]_vars

\* a logout was answered while a token that /me accepts is in a client's hands
C9_Witness ==
    /\ Plain("logout")
    /\ resp.success
    /\ \E t \in issued : meRoute(t, "none").resp.data.user # NoUser

(* C10: FindOrCreateOAuthUser twice with the same (oauthId, name, email):  *)
(* the first call creates exactly one row and reports a new user; the      *)
(* second reports an existing user, returns the same id, creates no row    *)
(* and stores a last_login strictly later than the stored one.             *)

\* the email microsoft-auth passes on for the request being answered
OAuthEmailOf(r) == IF Truthy(r.email) THEN r.email ELSE r.id \o OAuthSuffix

\* the answer to a microsoft-auth request for an id and email no row holds
FirstOAuthCall ==
    /\ Answering("microsoft-auth")
    /\ Truthy(req'.id) /\ Truthy(req'.name)
    /\ FindById(req'.id) = NoUser
    /\ RowsWithEmail(OAuthEmailOf(req')) = {}

\* the answer to a microsoft-auth request repeating the triple that made the row
SecondOAuthCall ==
    /\ Answering("microsoft-auth")
    /\ Truthy(req'.id) /\ Truthy(req'.name)
    /\ FindById(req'.id) # NoUser
    /\ FindById(req'.id).password_hash = NoHash
    /\ FindById(req'.id).name = req'.name
    /\ FindById(req'.id).email = OAuthEmailOf(req')

FirstOAuthCallCreates ==
    /\ resp'.status = 200
    /\ resp'.message = "User created successfully"
    /\ resp'.data.id = req'.id
    /\ Cardinality(users') = Cardinality(users) + 1
    /\ \E u \in users' : u.id = req'.id /\ users' = users \cup {u}

SecondOAuthCallFinds ==
    /\ resp'.status = 200
    /\ resp'.message = "User authenticated successfully"
    /\ resp'.data.id = req'.id
    /\ {u.id : u \in users'} = {u.id : u \in users}
    /\ Cardinality(users') = Cardinality(users)

(* C10 as stated: the second call finds the row, creates none, and stores  *)
(* a last_login strictly later than the one the row held.  Two calls       *)
(* answered within the same millisecond store equal values.                *)

C10_SecondCallStrictlyLater ==
    [][ /\ FirstOAuthCall => FirstOAuthCallCreates
        /\ SecondOAuthCall
           => ( /\ SecondOAuthCallFinds
                /\ \A u \in users' :
                      u.id = req'.id
                      => u.last_login[1] > FindById(req'.id).last_login[1] )
      ]_vars

(* C10 as amended: the first call creates exactly one row and reports a    *)
(* new user; the second reports an existing user with the same id, creates *)
(* no row, and sets last_login to the time of the second call, which is    *)
(* never earlier than the stored one.                                      *)

C10_SecondCallStampsNow ==
    [][ /\ FirstOAuthCall => FirstOAuthCallCreates
        /\ SecondOAuthCall
           => ( /\ SecondOAuthCallFinds
                /\ \A u \in users' :
                      u.id = req'.id
                      => /\ u.last_login = <<now>>
                         /\ u.last_login[1] >= FindById(req'.id).last_login[1] )
      ]_vars

\* a second call was answered after the clock had advanced
C10_Witness ==
    /\ Plain("microsoft-auth")
    /\ resp.message = "User authenticated successfully"
    /\ FindById(req.id).password_hash = NoHash
    /\ FindById(req.id).name = req.name
    /\ FindById(req.id).last_login[1] > FindById(req.id).created_at[1]

(* C11: no two rows of the table share an email, and microsoft-auth with   *)
(* an id no row has and an email that a registered account holds creates   *)
(* no row, issues no token and is answered as a failure.                   *)

LosingInsert ==
    /\ resp = NoResponse
    /\ \E r \in inflight : inflight' = inflight \ {r} /\ r.email = req'.email
    /\ req'.op = "register"
    /\ RowsWithEmail(req'.email) # {}

C12_RaceLoserIs409 ==
    [][ LosingInsert
        => ( /\ resp'.status = 409
             /\ users' = users
             /\ Cardinality(RowsWithEmail(req'.email)) = 1 ) ]_vars

\* what the code does for the request that lost: 500, no row, no token
C12_RaceLoserIs500 ==
    [][ LosingInsert
        => ( /\ resp' = Failure(500, JStr(DbUniqueEmail.message))
             /\ users' = users
             /\ Cardinality(RowsWithEmail(req'.email)) = 1
             /\ TokensOf(resp') = {} ) ]_vars

(* C13: DELETE /:id answers 400 to an id under 10 characters and leaves    *)
(* the table alone; answers 404 when no row has the id and leaves the      *)
(* table alone; otherwise removes exactly that row and answers success.    *)
(* So deleting a registered user succeeds and deleting it again is 404.    *)

C14_FailureErrorIsString ==
    (resp # NoResponse /\ ~resp.success) => resp.error.kind = "string"

(* C15: in production, when the store or the hash routine fails during a   *)
(* request, the answer is 500 and its error text is not the message of the *)
(* exception that was caught.  createUser and findOrCreateMicrosoftUser    *)
(* pass that message on whatever NODE_ENV is.                              *)

\* the messages of the exceptions the store and the hash routine throw
ExceptionMessages ==
    {DbDown.message, DbNotFound.message, DbUniqueEmail.message, HashError.message}

C15_NoExceptionTextInProduction ==
    ( /\ env.NODE_ENV = "production"
      /\ req.fault # "none" )
    => ( /\ resp.status = 500
         /\ ~resp.success
         /\ resp.error.text \notin ExceptionMessages )

\* a login request is answered, whatever became of it
AnsweringLogin == resp = NoResponse /\ req'.op = "login"

\* microsoft-auth is answered with success for an id that a row has
OAuthOnExistingUser ==
    /\ Answering("microsoft-auth")
    /\ resp'.success
    /\ FindById(req'.id) # NoUser

(* C16 as stated: Login leaves every row as it was, last_login included,   *)
(* and every successful microsoft-auth for an existing user changes that   *)
(* row's last_login and nothing else.  A call in the millisecond of the    *)
(* stored last_login writes the value the row already has.                 *)

C16_OAuthChangesLastLogin ==
    [][ /\ AnsweringLogin => users' = users
        /\ OAuthOnExistingUser
           => ( /\ users' = (users \ {FindById(req'.id)})
                         \cup {[FindById(req'.id) EXCEPT !.last_login = <<now>>]}
                /\ \A u \in users' :
                      u.id = req'.id => u.last_login # FindById(req'.id).last_login )
      ]_vars

(* C16 as amended: Login leaves every row as it was, and every successful  *)
(* microsoft-auth for an existing user sets that row's last_login to the   *)
(* time of the call and changes no other column and no other row.          *)

C16_OAuthWritesOnlyLastLogin ==
    [][ /\ AnsweringLogin => users' = users
        /\ OAuthOnExistingUser
           => users' = (users \ {FindById(req'.id)})
                       \cup {[FindById(req'.id) EXCEPT !.last_login = <<now>>]}
      ]_vars

\* an account made by Register was signed in through microsoft-auth under
\* another name: only its last_login moved
C16_Witness ==
    /\ Plain("microsoft-auth")
    /\ resp.success
    /\ FindById(req.id).password_hash # NoHash
    /\ FindById(req.id).name # req.name
    /\ FindById(req.id).last_login = <<now>>

(* C17: the row microsoft-auth creates has the request's id as its id, no  *)
(* password hash and the default plan; the row Register creates has a      *)
(* password hash that is a bcrypt digest, not the password, and the same   *)
(* default plan.                                                           *)

C17_CreatedRowColumns ==
    [][ /\ ( Answering("microsoft-auth") /\ resp'.success
             /\ FindById(req'.id) = NoUser )
           => \E u \in users' \ users :
                 /\ users' = users \cup {u}
                 /\ u.id = req'.id
                 /\ u.password_hash = NoHash
                 /\ u.plan_id = DefaultPlanId
        /\ ( Answering("register") /\ resp'.success )
           => \E u \in users' \ users :
                 /\ users' = users \cup {u}
                 /\ u.id = resp'.data.id
                 /\ u.password_hash # NoHash
                 /\ u.password_hash # PlainText(req'.password)
                 /\ u.password_hash.alg = "bcrypt"
                 /\ BcryptCompare(req'.password, u.password_hash)
                 /\ u.plan_id = DefaultPlanId
      ]_vars

\* microsoft-auth has created a row beside one that Register created
C17_Witness ==
    /\ Plain("microsoft-auth")
    /\ resp.message = "User created successfully"
    /\ FindById(req.id).password_hash = NoHash
    /\ FindById(req.id).plan_id = DefaultPlanId
    /\ \E u \in users : u.password_hash.alg = "bcrypt" /\ u.plan_id = DefaultPlanId

(* C18: every access token in a response expires 24 hours after it was     *)
(* issued and every refresh token 7 days after; every cookie a response    *)
(* sets lives as long as the token it carries is valid (accessToken 24 h,  *)
(* refreshToken 7 d); a failure response sets no cookie.                   *)

HourSec == 60 * 60

C18_TokenAndCookieLifetimes ==
    (resp # NoResponse)
    => ( /\ resp.data.accessToken # NoToken
            => ( /\ resp.data.accessToken.iat = now \div 1000
                 /\ resp.data.accessToken.exp
                      = resp.data.accessToken.iat + 24 * HourSec
                 /\ JwtVerify(resp.data.accessToken, env.ACCESS_TOKEN_SECRET,
                              now + 24 * HourSec * 1000 - 1) = "ok"
                 /\ JwtVerify(resp.data.accessToken, env.ACCESS_TOKEN_SECRET,
                              now + 24 * HourSec * 1000) = "TokenExpiredError" )
         /\ resp.data.refreshToken # NoToken
            => ( /\ resp.data.refreshToken.iat = now \div 1000
                 /\ resp.data.refreshToken.exp
                      = resp.data.refreshToken.iat + 7 * 24 * HourSec )
         /\ \A c \in resp.cookies :
               ~c.cleared
               => ( /\ c.value \in TokensOf(resp)
                    /\ c.maxAge = (c.value.exp - c.value.iat) * 1000
                    /\ c.name = "accessToken"
                       => c.value = resp.data.accessToken /\ c.maxAge = 24 * HourSec * 1000
                    /\ c.name = "refreshToken"
                       => c.value = resp.data.refreshToken
                          /\ c.maxAge = 7 * 24 * HourSec * 1000 )
         /\ resp.success /\ TokensOf(resp) # {}
            => {c.name : c \in resp.cookies} \subseteq {"accessToken", "refreshToken"}
               /\ \E c \in resp.cookies : c.name = "accessToken"
         /\ ~resp.success => resp.cookies = {} /\ TokensOf(resp) = {} )

\* a day after start-up a refresh has set the accessToken cookie
C18_Witness ==
    /\ Plain("refresh")
    /\ now > 0
    /\ resp.success
    /\ \E c \in resp.cookies : c.name = "accessToken" /\ c.value.iat = now \div 1000

(* C19: an issued access token is tagged with the flow that signed the     *)
(* user in: email from Register and Login, microsoft from microsoft-auth,  *)
(* and microsoft from /refresh when the user signed in through Microsoft.  *)
(* /refresh tags every token it signs email.                               *)

C19_ProviderTagFollowsFlow ==
    (resp.data.accessToken # NoToken)
    => ( /\ req.op \in {"register", "login"}
            => resp.data.accessToken.provider = "email"
         /\ req.op = "microsoft-auth"
            => resp.data.accessToken.provider = "microsoft"
         \* an account without a password hash can only have signed in
         \* through microsoft-auth
         /\ ( req.op = "refresh"
              /\ FindById(req.token.userId).password_hash = NoHash )
            => resp.data.accessToken.provider = "microsoft" )

(* C20: when a store call or the hash call fails inside register, login,   *)
(* microsoft-auth, delete or refresh, the failed call is the last call the *)
(* request makes and is made once, the request is answered as a failure,   *)
(* the table is as it was before the request and no token is issued.       *)

C20_FailedStepEndsTheRequest ==
    [][ ( /\ resp = NoResponse
          /\ req'.op \in {"register", "login", "microsoft-auth", "delete", "refresh"}
          /\ req'.fault # "none" )
        => LET calls == AwaitedCalls(req', req'.fault)
           IN  /\ calls # <<>>
               /\ calls[Len(calls)] \in CallsOfFault(req'.fault)
               /\ \A i \in 1..Len(calls) : \A j \in 1..Len(calls) :
                      calls[i] = calls[j] => i = j
               /\ ~resp'.success
               /\ resp'.status = 500
               /\ users' = users
               /\ minted' = minted
               /\ TokensOf(resp') = {}
               /\ resp'.cookies = {} ]_vars

\* the insert of a Register failed while the table held another row
C20_Witness ==
    /\ req.op = "register"
    /\ req.fault = "write"
    /\ resp.status = 500
    /\ users # {}
    /\ FindByEmail(req.email) = NoUser

(* C21: microsoft-auth hands out tokens for a user id only when            *)
(* microsoft-auth created that row: called with the id of an account that  *)
(* Register created, it does not return that account and issues no token.  *)
(* The code looks the id up whoever created the row and signs the user in. *)

C21_OAuthNeverEntersRegisteredAccount ==
    ( /\ Plain("microsoft-auth")
      /\ Truthy(req.id) /\ Truthy(req.name)
      /\ FindById(req.id).password_hash # NoHash )
    => ( /\ ~resp.success
         /\ resp.data.id # req.id
         /\ TokensOf(resp) = {} )

(* C22: no success response of /me, /login, /refresh, /register and        *)
(* /microsoft-auth carries the user's password hash.  /me and /refresh     *)
(* send the user object with its password_hash column.                     *)

C22_NoPasswordHashInResponses ==
    ( /\ req.op \in {"me", "login", "refresh", "register", "microsoft-auth"}
      /\ resp.success )
    => resp.data.user.password_hash = NoHash

\* the tokens the client of the followed session holds or is being sent
SessionTokens == issued \cup TokensOf(resp)

\* the session's refresh token: the one token signed without a provider tag
SessionRefreshTokens == {t \in SessionTokens : t.provider = ""}

\* every access token of the session expires within 7 days and 24 hours of
\* the sign-in, and the session's refresh token is refused after 7 days
SessionIsBounded ==
    \A r \in SessionRefreshTokens :
        /\ \A t \in SessionTokens \ SessionRefreshTokens :
               t.exp <= r.iat + RefreshTtlSec + AccessTtlSec
        /\ ( req.op = "refresh" /\ req.token = r
             /\ now > (r.iat + RefreshTtlSec) * 1000 )
           => resp.status = 401 /\ TokensOf(resp) = {}

(* C23 as stated: no sequence of refreshes extends a session: every access *)
(* token that one sign-in at t0 leads to expires by t0 + 7 d + 24 h, and   *)
(* /refresh with the session's refresh token is answered 401 after         *)
(* t0 + 7 d.  When both tokens are signed with one secret, /refresh takes  *)
(* an access token for a refresh token and the chain never ends.           *)

C23_SessionIsBounded == SessionIsBounded

(* C23 as amended: when the access and the refresh secret differ, every    *)
(* access token that one sign-in at t0 leads to expires by t0 + 7 d + 24 h *)
(* and /refresh with the session's refresh token is answered 401 after     *)
(* t0 + 7 d.                                                               *)

C23_SessionIsBoundedUnderTwoSecrets ==
    (env.ACCESS_TOKEN_SECRET # env.REFRESH_TOKEN_SECRET) => SessionIsBounded

\* under two secrets the refresh token was refused after its seven days,
\* having been accepted on the last day before
C23_Witness ==
    /\ env.ACCESS_TOKEN_SECRET # env.REFRESH_TOKEN_SECRET
    /\ req.op = "refresh"
    /\ req.token \in SessionRefreshTokens
    /\ now > (req.token.iat + RefreshTtlSec) * 1000
    /\ resp.status = 401
    /\ \E t \in issued : t.provider # "" /\ t.exp > req.token.iat + RefreshTtlSec

\* the create of a microsoft-auth request whose id was taken after its lookup
\* had found no row
LosingOAuthInsert ==
    /\ resp = NoResponse
    /\ req'.op = "microsoft-auth"
    /\ \E r \in inflight : inflight' = inflight \ {r} /\ r.id = req'.id
    /\ FindById(req'.id) # NoUser

(* C24: when two microsoft-auth requests for one unseen id both find no    *)
(* row before either creates, at most one row has the id afterwards, at    *)
(* most one of them reports a new user, and the other is answered 500      *)
(* instead of being given the row that now exists.                         *)

C24_OAuthRaceLoserIs500 ==
    [][ /\ \A u \in users' : \A v \in users' : u.id = v.id => u = v
        /\ LosingOAuthInsert
           => ( /\ resp'.status = 500
                /\ ~resp'.success
                /\ resp'.message # "User created successfully"
                /\ resp'.data.id # req'.id
                /\ TokensOf(resp') = {}
                /\ users' = users ) ]_vars

\* the request that lost the race for an id has been answered 500
C24_Witness ==
    /\ req.op = "microsoft-auth"
    /\ resp = Failure(500, JStr(DbUniqueId.message))
    /\ FindById(req.id) # NoUser
    /\ FindById(req.id).password_hash = NoHash

\* the rows that findOrCreateMicrosoftUser created: they carry the microsoft_ mark
OAuthCreated == {u \in users : u.microsoft_id.prefix = "microsoft_"}

(* C25: an account that findOrCreateMicrosoftUser created never has a      *)
(* password hash, and a login with its email, whatever the password, is    *)
(* answered 401 with no tokens.                                            *)
C25_OAuthAccountHasNoPasswordLogin ==
    /\ \A u \in OAuthCreated : u.password_hash = NoHash
    /\ ( /\ Plain("login")
         /\ Truthy(req.email) /\ Truthy(req.password)
         /\ FindByEmail(req.email) \in OAuthCreated )
       => resp.status = 401 /\ resp.cookies = {} /\ resp.data = NoData

\* a login with a non-empty password named a microsoft-created account and was refused
C25_Witness ==
    /\ Plain("login")
    /\ Truthy(req.password)
    /\ FindByEmail(req.email) \in OAuthCreated
    /\ resp.status = 401

-----------------------------------------------------------------------------
(* The MercadoPago routes: POST /mercadopago/subscription and              *)
(* POST /mercadopago/webhook.  MercadoPago itself is outside the program:  *)
(* what its API answers is an input of the request.                        *)

\* const PLANS: the ids of the FREE and the BASICO plan stand for the five
PLANS == {DefaultPlanId, "26486f38-5d1b-445b-8d8a-feb87f90dd3c"}

\* findPlanByUUID(uuid) finds a plan
findPlanByUUID(uuid) == uuid \in PLANS

\* what a service function hands back to its route: a value or a thrown error,
\* and the users table it leaves
Returned(value, store) == [threw |-> FALSE, value |-> value, store |-> store]

Threw(store) == [threw |-> TRUE, value |-> Null, store |-> store]

\* the preapproval PreApproval.get answers with; NoPreapproval when the call throws
Preapproval(status, payer_email) == [status |-> status, payer_email |-> payer_email]

NoPreapproval == Preapproval("", Null)

\* updatePlan with the update of the user's plan, which the code has commented out
updatePlanApplying(type, notification, preapproval) ==
    IF type # "subscription_preapproval" THEN Returned(200, users)
    ELSE IF notification = Null \/ preapproval = NoPreapproval THEN Threw(users)
    ELSE IF preapproval.status = "authorized"
    THEN Returned(200, {IF u.email = preapproval.payer_email
                        THEN [u EXCEPT !.plan_id = "26486f38-5d1b-445b-8d8a-feb87f90dd3c"]
                        ELSE u : u \in users})
    ELSE Returned(200, users)

\* updatePlan(type, notification): notification is the data member of the body,
\* Null when it is undefined, and then notification.id throws a TypeError
updatePlan(type, notification, preapproval) ==
    IF type # "subscription_preapproval" THEN Returned(200, users)
    ELSE IF notification = Null \/ preapproval = NoPreapproval THEN Threw(users)
    ELSE Returned(200, users)

\* res.status(st).send(text)
SendText(st, text) ==
    [status |-> st, success |-> FALSE, error |-> JNone, message |-> "",
     data |-> NoData, cookies |-> {}, text |-> text, details |-> JNone]

\* res.status(st).json({ error, details })
SendError(st, error, details) ==
    [status |-> st, success |-> FALSE, error |-> JStr(error), message |-> "",
     data |-> NoData, cookies |-> {}, text |-> "", details |-> details]

\* res.status(201).json(response) of the subscription route
SendSubscription(planId) ==
    [status |-> 201, success |-> FALSE, error |-> JNone, message |-> "",
     data |-> [NoData EXCEPT !.kind = "subscription", !.plan_id = planId],
     cookies |-> {}, text |-> "", details |-> JNone]

\* the webhook route with a catch block that reports the failure
webhookRouteFailing(body, type, notification, preapproval) ==
    LET r == updatePlan(type, notification, preapproval)
    IN  IF body = "undefined" THEN Outcome(SendText(500, "Error"), users, minted, "none")
        ELSE IF r.threw THEN Outcome(SendText(500, "Error"), r.store, minted, "service")
        ELSE Outcome(SendText(200, "OK"), r.store, minted, "none")

\* router.post('/webhook'): body tells whether req.body is an object or
\* undefined, and destructuring undefined throws inside the try block
webhookRoute(body, type, notification, preapproval) ==
    LET r == updatePlan(type, notification, preapproval)
    IN  IF body = "undefined" THEN Outcome(SendText(200, "OK"), users, minted, "none")
        ELSE IF r.threw THEN Outcome(SendText(200, "OK"), r.store, minted, "service")
        ELSE Outcome(SendText(200, "OK"), r.store, minted, "none")

\* details: process.env.NODE_ENV === 'development' ? error.message : undefined
DevelopmentDetails(message) ==
    IF env.NODE_ENV = "development" THEN JStr(message) ELSE JNone

\* createPreaproval(email, planId): created is what preApprovalApi.create does,
\* "created", "noInitPoint", "throws401" or "throws"
createPreaproval(email, planId, created) ==
    IF ~Truthy(email) THEN [status |-> 400, error |-> "Email is required", details |-> JNone]
    ELSE IF ~findPlanByUUID(planId)
    THEN [status |-> 400, error |-> "Invalid plan selected", details |-> JNone]
    ELSE IF created = "throws401"
    THEN [status |-> 500,
          error |-> "Payment service authentication failed. Check MP_ACCESS_TOKEN",
          details |-> DevelopmentDetails("Unauthorized")]
    ELSE IF created = "throws"
    THEN [status |-> 500, error |-> "Failed to create subscription",
          details |-> DevelopmentDetails("fetch failed")]
    ELSE IF created = "noInitPoint"
    THEN [status |-> 500, error |-> "MercadoPago did not return a checkout URL",
          details |-> JNone]
    ELSE [status |-> 201, error |-> "", details |-> JNone]

\* router.post('/subscription')
subscriptionRoute(body, email, planId, created) ==
    LET response == createPreaproval(email, planId, created)
        struck == IF Truthy(email) /\ findPlanByUUID(planId)
                     /\ created \in {"throws401", "throws"}
                  THEN "service" ELSE "none"
    IN  IF body = "undefined"
        THEN Outcome(SendError(500, "Internal server error", JNone), users, minted, "none")
        ELSE IF response.error # ""
        THEN Outcome(SendError(StatusOr500(response.status), response.error,
                               response.details), users, minted, struck)
        ELSE Outcome(SendSubscription(planId), users, minted, "none")

\* a request to one of the MercadoPago routes
PaymentRequest(op, body, email, planId, type, notification, service) ==
    [op |-> op, name |-> Null, email |-> email, password |-> Null, id |-> Null,
     token |-> NoToken, fault |-> "none", body |-> body, planId |-> planId,
     type |-> type, notification |-> notification, service |-> service]

\* req.body as the handler sees it
Bodies == {"object", "undefined"}

PlanIds == PLANS \cup {"no-such-plan"}

\* what preApprovalApi.create does
Creations == {"created", "noInitPoint", "throws401", "throws"}

\* the type member of a notification; "" when it is undefined
WebhookTypes == {"subscription_preapproval", "payment", ""}

\* the data member of a notification: { id } or undefined
Notifications == {<<"p", "1">>, Null}

\* what PreApproval.get answers
Preapprovals ==
    {NoPreapproval} \cup
    {Preapproval(st, e) : st \in {"authorized", "pending"}, e \in {EmailAna}}

Subscription ==
    /\ Idle
    /\ \E body \in Bodies, email \in {EmailAna, Null}, planId \in PlanIds,
          created \in Creations :
        /\ body = "undefined" => (email = Null /\ planId = "no-such-plan"
                                  /\ created = "created")
        /\ Answer(PaymentRequest("subscription", body, email, planId, "", Null, created),
                  subscriptionRoute(body, email, planId, created))

Webhook ==
    /\ Idle
    /\ \E body \in Bodies, type \in WebhookTypes, notification \in Notifications,
          preapproval \in Preapprovals :
        /\ body = "undefined" => (type = "" /\ notification = Null
                                  /\ preapproval = NoPreapproval)
        /\ Answer(PaymentRequest("webhook", body, Null, "", type, notification,
                                 preapproval),
                  webhookRoute(body, type, notification, preapproval))

PaymentNext ==
    \/ Receive
    \/ Me
    \/ Login
    \/ Refresh
    \/ Logout
    \/ Register
    \/ DeleteUser
    \/ MicrosoftAuth
    \/ Tick
    \/ Subscription
    \/ Webhook

PaymentSpec == Init /\ [][PaymentNext]_vars

(* C26: every user row carries the default plan in every reachable state:  *)
(* register and microsoft-auth write it, and neither the subscription      *)
(* route nor a webhook for an authorized preapproval changes a row.        *)
C26_EveryUserOnDefaultPlan ==
    \A u \in users : u.plan_id = DefaultPlanId

\* a webhook for an authorized preapproval of a stored user's email was processed
C26_Witness ==
    /\ req.op = "webhook"
    /\ req.type = "subscription_preapproval"
    /\ req.notification # Null
    /\ req.service.status = "authorized"
    /\ FindByEmail(req.service.payer_email) # NoUser
    /\ resp.status = 200

(* C27: the webhook answers 200 with the text OK for every request:        *)
(* when updatePlan returns, when the notification type is unknown, and     *)
(* when reading the body or updatePlan throws.                             *)
C27_WebhookAlwaysOk ==
    (req.op = "webhook" /\ resp # NoResponse)
    => resp.status = 200 /\ resp.text = "OK"

\* a webhook in which updatePlan threw has been answered
C27_Witness ==
    /\ req.op = "webhook"
    /\ req.fault = "service"
    /\ resp.status = 200

-----------------------------------------------------------------------------
(* The CRM and business services: zod schemas, the four tables, and the    *)
(* create, update and delete functions of CrmService and BusinessService.  *)
(* A JSON value of a request body is a tuple of characters when it is a    *)
(* string, and one of the markers below otherwise.  The prisma schema is   *)
(* not part of the sources, so no relation between the tables is modelled. *)

\* requests the CRM and business routes answer in one run
MaxCrmSteps == 3

Undefined == <<"undefined">>

NullValue == <<"null">>

NumberValue == <<"number">>

TrueValue == <<"true">>

FalseValue == <<"false">>

IsString(v) == v \notin {Undefined, NullValue, NumberValue, TrueValue, FalseValue}

HexDigits == Digits \cup {"a", "b", "c", "d", "e", "f", "A", "B", "C", "D", "E", "F"}

\* z.string().uuid(): 8-4-4-4-12 hexadecimal digits
IsUuid(s) ==
    /\ Len(s) = 36
    /\ \A i \in 1..36 : IF i \in {9, 14, 19, 24} THEN s[i] = "-" ELSE s[i] \in HexDigits

\* z.string().datetime(): YYYY-MM-DDTHH:MM:SSZ
IsDatetime(s) ==
    /\ Len(s) = 20
    /\ \A i \in 1..20 :
         IF i \in {5, 8} THEN s[i] = "-"
         ELSE IF i = 11 THEN s[i] = "T"
         ELSE IF i \in {14, 17} THEN s[i] = ":"
         ELSE IF i = 20 THEN s[i] = "Z"
         ELSE s[i] \in Digits

\* z.string().url(): what new URL(s) accepts, a scheme, ":" and a rest
IsUrl(s) ==
    LET colon == IndexOf(s, ":")
    IN  /\ colon > 1
        /\ s[1] \in Letters
        /\ \A i \in 1..(colon - 1) : IsAlnum(s[i])
        /\ Len(s) > colon

\* one member of a z.object: whether it may be left out, and its test
Field(required, check) == [required |-> required, check |-> check]

contactSchema ==
    [first_name |-> Field(TRUE, "min2"), last_name |-> Field(TRUE, "min2"),
     email |-> Field(TRUE, "email"), phone_number |-> Field(FALSE, "max20"),
     company_id |-> Field(FALSE, "max100"), job_title |-> Field(FALSE, "max100")]

interactionSchema ==
    [contact_id |-> Field(TRUE, "uuid"), user_id |-> Field(TRUE, "uuid"),
     channel |-> Field(TRUE, "min2"), content |-> Field(FALSE, "string")]

activitySchema ==
    [type |-> Field(TRUE, "min2"), description |-> Field(FALSE, "string"),
     due_date |-> Field(FALSE, "datetime"), completed |-> Field(FALSE, "boolean"),
     user_id |-> Field(TRUE, "uuid"), contact_id |-> Field(FALSE, "uuidOrNull"),
     deal_id |-> Field(FALSE, "uuidOrNull")]

businessSchema ==
    [user_id |-> Field(FALSE, "uuid"), business_name |-> Field(TRUE, "min2"),
     contact_email |-> Field(FALSE, "email"), contact_phone |-> Field(FALSE, "max30"),
     address |-> Field(FALSE, "max255"), logo_url |-> Field(FALSE, "url")]

\* the test a member applies to a value that is present
Passes(check, v) ==
    CASE check = "min2" -> IsString(v) /\ Len(v) >= 2
      [] check = "email" -> IsString(v) /\ IsEmail(v)
      [] check = "max20" -> IsString(v) /\ Len(v) <= 20
      [] check = "max30" -> IsString(v) /\ Len(v) <= 30
      [] check = "max100" -> IsString(v) /\ Len(v) <= 100
      [] check = "max255" -> IsString(v) /\ Len(v) <= 255
      [] check = "string" -> IsString(v)
      [] check = "uuid" -> IsString(v) /\ IsUuid(v)
      [] check = "uuidOrNull" -> v = NullValue \/ (IsString(v) /\ IsUuid(v))
      [] check = "datetime" -> IsString(v) /\ IsDatetime(v)
      [] check = "url" -> IsString(v) /\ IsUrl(v)
      [] check = "boolean" -> v \in {TrueValue, FalseValue}

\* schema.partial(): every member may be left out
partial(schema) == [f \in DOMAIN schema |-> Field(FALSE, schema[f].check)]

\* a body that is not an object (no body was sent)
NoBody == [body |-> Undefined]

\* schema.safeParse(data).error.issues: the members that fail, or the body
\* itself; keys the schema does not name are stripped and play no part
safeParse(schema, data) ==
    IF data = NoBody THEN {"body"}
    ELSE {f \in DOMAIN schema :
            IF data[f] = Undefined THEN schema[f].required
            ELSE ~Passes(schema[f].check, data[f])}

\* the object with the given members, every other member of the schema left out
Obj(schema, given) ==
    [f \in DOMAIN schema |-> IF f \in DOMAIN given THEN given[f] ELSE Undefined]

\* the n-th primary key the store generates for a CRM or business row
RowId(n) ==
    Rep("0", 8) \o <<"-">> \o Rep("0", 4) \o <<"-", "4">> \o Rep("0", 3)
    \o <<"-", "8">> \o Rep("0", 3) \o <<"-">> \o Rep("0", 11) \o <<DigitChar(n)>>

Row(id, data) == [id |-> id, data |-> data]

NoRow == Row(Undefined, NoBody)

\* prisma.<table>.findUnique({ where: { id } })
FindRow(table, id) ==
    IF \E r \in crm[table] : r.id = id
    THEN CHOOSE r \in crm[table] : r.id = id
    ELSE NoRow

\* prisma.contacts.findUnique({ where: { email } })
FindContactByEmail(email) ==
    IF \E r \in crm.contacts : r.data.email = email
    THEN CHOOSE r \in crm.contacts : r.data.email = email
    ELSE NoRow

\* a service function resolves with a row and leaves the tables as store
Done(row, store) ==
    [ok |-> TRUE, e |-> ThrownObject(0, JNone), row |-> row, store |-> store,
     fault |-> "none"]

\* a service function rejects with e and leaves the tables as they were
Fail(e, fault) ==
    [ok |-> FALSE, e |-> e, row |-> NoRow, store |-> crm, fault |-> fault]

\* data: { ...validation.data } of an update: the members present overwrite
Overwrite(old, data) ==
    [f \in DOMAIN old |-> IF data[f] # Undefined THEN data[f] ELSE old[f]]

\* an update that looks the row up before it validates the data
updateRowLookingUpFirst(table, schema, notFound, id, data, fault) ==
    LET issues == safeParse(partial(schema), data)
        row == FindRow(table, id)
        updated == Row(id, Overwrite(row.data, data))
    IN  IF fault = "find" THEN Fail(DbDown, fault)
        ELSE IF row = NoRow THEN Fail(ThrownObject(404, JStr(notFound)), "none")
        ELSE IF issues # {} THEN Fail(ThrownObject(400, JArr(issues)), "none")
        ELSE IF fault = "write" THEN Fail(DbDown, fault)
        ELSE IF table = "contacts" /\ data.email # Undefined
                /\ FindContactByEmail(data.email) \notin {NoRow, row}
        THEN Fail(DbUniqueEmail, "none")
        ELSE Done(updated, [crm EXCEPT ![table] = (@ \ {row}) \cup {updated}])

\* updateContact, updateInteraction, updateActivity, updateBusiness: validate
\* against the partial schema, look the row up, update it
updateRow(table, schema, notFound, id, data, fault) ==
    LET issues == safeParse(partial(schema), data)
        row == FindRow(table, id)
        updated == Row(id, Overwrite(row.data, data))
    IN  IF issues # {} THEN Fail(ThrownObject(400, JArr(issues)), "none")
        ELSE IF fault = "find" THEN Fail(DbDown, fault)
        ELSE IF row = NoRow THEN Fail(ThrownObject(404, JStr(notFound)), "none")
        ELSE IF fault = "write" THEN Fail(DbDown, fault)
        ELSE IF table = "contacts" /\ data.email # Undefined
                /\ FindContactByEmail(data.email) \notin {NoRow, row}
        THEN Fail(DbUniqueEmail, "none")
        ELSE Done(updated, [crm EXCEPT ![table] = (@ \ {row}) \cup {updated}])

\* deleteContact, deleteInteraction, deleteActivity, deleteBusiness
deleteRow(table, notFound, id, fault) ==
    LET row == FindRow(table, id)
    IN  IF fault = "find" THEN Fail(DbDown, fault)
        ELSE IF row = NoRow THEN Fail(ThrownObject(404, JStr(notFound)), "none")
        ELSE IF fault = "write" THEN Fail(DbDown, fault)
        ELSE Done(NoRow, [crm EXCEPT ![table] = @ \ {row}])

\* createBusiness: a member left out is stored as null, user_id is left out
businessData(data) ==
    [f \in DOMAIN data |-> IF data[f] = Undefined /\ f # "user_id" THEN NullValue
                           ELSE data[f]]

\* createInteraction, createActivity, createBusiness: validate, then insert
createRow(table, schema, data, fault) ==
    LET issues == safeParse(schema, data)
        row == Row(RowId(minted + 1),
                   IF table = "businesses" THEN businessData(data) ELSE data)
    IN  IF issues # {} THEN Fail(ThrownObject(400, JArr(issues)), "none")
        ELSE IF fault = "write" THEN Fail(DbDown, fault)
        ELSE Done(row, [crm EXCEPT ![table] = @ \cup {row}])

\* createContact: validate, refuse an email a contact already has, insert
createContact(data, fault) ==
    LET issues == safeParse(contactSchema, data)
        row == Row(RowId(minted + 1), data)
    IN  IF issues # {} THEN Fail(ThrownObject(400, JArr(issues)), "none")
        ELSE IF fault = "find" THEN Fail(DbDown, fault)
        ELSE IF FindContactByEmail(data.email) # NoRow
        THEN Fail(ThrownObject(409, JStr("A contact with this email already exists.")),
                  "none")
        ELSE IF fault = "write" THEN Fail(DbDown, fault)
        ELSE Done(row, [crm EXCEPT !.contacts = @ \cup {row}])

updateContact(id, data, fault) ==
    updateRow("contacts", contactSchema, "Contact not found.", id, data, fault)

deleteContact(id, fault) == deleteRow("contacts", "Contact not found.", id, fault)

createInteraction(data, fault) ==
    createRow("interactions", interactionSchema, data, fault)

updateInteraction(id, data, fault) ==
    updateRow("interactions", interactionSchema, "Interaction not found.", id, data, fault)

deleteInteraction(id, fault) ==
    deleteRow("interactions", "Interaction not found.", id, fault)

createActivity(data, fault) == createRow("activities", activitySchema, data, fault)

updateActivity(id, data, fault) ==
    updateRow("activities", activitySchema, "Activity not found.", id, data, fault)

deleteActivity(id, fault) == deleteRow("activities", "Activity not found.", id, fault)

createBusiness(data, fault) == createRow("businesses", businessSchema, data, fault)

updateBusiness(id, data, fault) ==
    updateRow("businesses", businessSchema, "Business not found", id, data, fault)

deleteBusiness(id, fault) == deleteRow("businesses", "Business not found", id, fault)

-----------------------------------------------------------------------------
(* The CRM routes (routes/crmRoutes.ts, and the later copy that ties a     *)
(* contact to the calling user) and the business routes                    *)

\* the data member of a response that carries a row
RowData(row) == [NoData EXCEPT !.kind = "row", !.id = row.id]

\* catch: res.status(error.status || 500).json({ error: error.error || text })
StatusFromError(r, text) ==
    Outcome(Failure(StatusOr500(r.e.status), OrElse(r.e.error, JStr(text))),
            r.store, minted, r.fault)

\* res.status(201).json({ success: true, data, message })
Created(r, message) ==
    Outcome(Success(201, message, RowData(r.row), {}), r.store, minted + 1, r.fault)

\* router.post('/contacts') of routes/crmRoutes.ts: its catch block answers
\* 500 with error.message || 'Failed to create contact'
postContactsRoute(data, fault) ==
    LET r == createContact(data, fault)
    IN  IF r.ok THEN Created(r, "Contact created")
        ELSE Outcome(Failure(500, IF r.e.message # "" THEN JStr(r.e.message)
                                  ELSE JStr("Failed to create contact")),
                     r.store, minted, r.fault)

\* router.post('/contacts') of the copy with getUserIdFromReq: userId is the
\* caller's id, Null when the request names none; its catch block answers
\* error.status || 500 with error.error || error.message || text
postContactsRouteForUser(userId, data, fault) ==
    LET r == createContact(data, fault)
    IN  IF ~Truthy(userId)
        THEN Outcome(Failure(401, JStr("Unauthorized: missing user id")), crm, minted,
                     "none")
        ELSE IF r.ok THEN Created(r, "Contact created")
        ELSE Outcome(Failure(StatusOr500(r.e.status),
                             OrElse(OrElse(r.e.error, JStr(r.e.message)),
                                    JStr("Failed to create contact"))),
                     r.store, minted, r.fault)

\* router.post('/interactions'), router.post('/activities'), and
\* router.post('/') of the business routes
postRoute(table, data, fault) ==
    LET r == CASE table = "interactions" -> createInteraction(data, fault)
               [] table = "activities" -> createActivity(data, fault)
               [] table = "businesses" -> createBusiness(data, fault)
    IN  IF r.ok
        THEN Created(r, CASE table = "interactions" -> "Interaction created"
                          [] table = "activities" -> "Activity created"
                          [] table = "businesses" -> "Business created")
        ELSE StatusFromError(r, CASE table = "interactions" -> "Failed to create interaction"
                                  [] table = "activities" -> "Failed to create activity"
                                  [] table = "businesses" -> "Failed to create business")

\* router.put('/contacts/:id'), '/interactions/:id', '/activities/:id', and
\* router.put('/:id') of the business routes
putRoute(table, id, data, fault) ==
    LET r == CASE table = "contacts" -> updateContact(id, data, fault)
               [] table = "interactions" -> updateInteraction(id, data, fault)
               [] table = "activities" -> updateActivity(id, data, fault)
               [] table = "businesses" -> updateBusiness(id, data, fault)
    IN  IF r.ok
        THEN Outcome(Success(200,
                             CASE table = "contacts" -> "Contact updated"
                               [] table = "interactions" -> "Interaction updated"
                               [] table = "activities" -> "Activity updated"
                               [] table = "businesses" -> "Business updated",
                             RowData(r.row), {}),
                     r.store, minted, r.fault)
        ELSE StatusFromError(r, CASE table = "contacts" -> "Failed to update contact"
                                  [] table = "interactions" -> "Failed to update interaction"
                                  [] table = "activities" -> "Failed to update activity"
                                  [] table = "businesses" -> "Failed to update business")

\* router.delete('/contacts/:id'), '/interactions/:id', '/activities/:id', and
\* router.delete('/:id') of the business routes
deleteRowRoute(table, id, fault) ==
    LET r == CASE table = "contacts" -> deleteContact(id, fault)
               [] table = "interactions" -> deleteInteraction(id, fault)
               [] table = "activities" -> deleteActivity(id, fault)
               [] table = "businesses" -> deleteBusiness(id, fault)
    IN  IF r.ok
        THEN Outcome(Success(200,
                             CASE table = "contacts" -> "Contact deleted"
                               [] table = "interactions" -> "Interaction deleted"
                               [] table = "activities" -> "Activity deleted"
                               [] table = "businesses" -> "Business deleted",
                             NoData, {}),
                     r.store, minted, r.fault)
        ELSE StatusFromError(r, CASE table = "contacts" -> "Failed to delete contact"
                                  [] table = "interactions" -> "Failed to delete interaction"
                                  [] table = "activities" -> "Failed to delete activity"
                                  [] table = "businesses" -> "Failed to delete business")

\* a request to a CRM or business route; router names the copy of the
\* contacts route that answers it
CrmRequest(op, table, id, data, userId, router, fault) ==
    [op |-> op, name |-> Null, email |-> Null, password |-> Null, id |-> id,
     token |-> NoToken, fault |-> fault, table |-> table, data |-> data,
     userId |-> userId, router |-> router]

EmailBo == <<"b", "o", "@", "m", ".", "c", "o">>

ChannelSms == <<"s", "m", "s">>

\* an id of the store's format that no row has
MissingRowId == RowId(9)

\* bodies of the POST routes: well-formed, malformed, and none
CreateInputs(table) ==
    CASE table = "contacts" ->
           {Obj(contactSchema, [first_name |-> NameAna, last_name |-> NameBo,
                                email |-> EmailAna]),
            Obj(contactSchema, [first_name |-> NameBo, last_name |-> NameAna,
                                email |-> EmailBo, phone_number |-> ShortId]),
            Obj(contactSchema, [first_name |-> NameAna, last_name |-> NameBo,
                                email |-> EmailMalformed]),
            NoBody}
      [] table = "interactions" ->
           {Obj(interactionSchema, [contact_id |-> RowId(1), user_id |-> MissingRowId,
                                    channel |-> ChannelSms]),
            Obj(interactionSchema, [channel |-> ChannelSms])}
      [] table = "activities" ->
           {Obj(activitySchema, [type |-> ChannelSms, user_id |-> MissingRowId,
                                 contact_id |-> NullValue]),
            Obj(activitySchema, [type |-> ChannelSms, user_id |-> ShortId])}
      [] table = "businesses" ->
           {Obj(businessSchema, [business_name |-> NameAna]),
            Obj(businessSchema, [business_name |-> NameA, contact_email |-> EmailAna])}

\* bodies of the PUT routes: well-formed, malformed, empty, and none
UpdateInputs(table) ==
    CASE table = "contacts" ->
           {Obj(contactSchema, [email |-> EmailAna]),
            Obj(contactSchema, [job_title |-> NameBo]),
            Obj(contactSchema, [first_name |-> NameA]),
            NoBody}
      [] table = "interactions" ->
           {Obj(interactionSchema, [content |-> NameAna]),
            Obj(interactionSchema, [contact_id |-> ShortId])}
      [] table = "activities" ->
           {Obj(activitySchema, [completed |-> TrueValue]),
            Obj(activitySchema, [completed |-> NameAna]),
            Obj(activitySchema, << >>)}
      [] table = "businesses" ->
           {Obj(businessSchema, [contact_email |-> EmailAna]),
            Obj(businessSchema, [logo_url |-> NameBo])}

\* req.params.id: the ids the store has generated, and one it has not
RowIds == {RowId(n) : n \in 1..minted} \cup {MissingRowId}

\* the server is idle and may take a CRM or business request
CrmIdle == resp = NoResponse /\ steps < MaxCrmSteps

CrmAnswer(request, out) ==
    /\ req' = [request EXCEPT !.fault = out.fault]
    /\ resp' = out.resp
    /\ crm' = out.store
    /\ minted' = out.minted
    /\ steps' = steps + 1
    /\ UNCHANGED <<users, env, now, issued, inflight>>

CrmCreate ==
    /\ CrmIdle
    /\ \E table \in Tables, fault \in {"none", "find", "write"} :
        \E data \in CreateInputs(table) :
            \/ /\ table = "contacts"
               /\ CrmAnswer(CrmRequest("crm-create", table, Null, data, Null,
                                       "crmRoutes", fault),
                            postContactsRoute(data, fault))
            \/ /\ table = "contacts"
               /\ data # NoBody
               /\ \E userId \in {Null, MissingRowId} :
                    CrmAnswer(CrmRequest("crm-create", table, Null, data, userId,
                                         "forUser", fault),
                              postContactsRouteForUser(userId, data, fault))
            \/ /\ table # "contacts"
               /\ fault # "find"
               /\ CrmAnswer(CrmRequest("crm-create", table, Null, data, Null,
                                       "crmRoutes", fault),
                            postRoute(table, data, fault))

CrmUpdate ==
    /\ CrmIdle
    /\ \E table \in Tables, id \in RowIds, fault \in {"none", "find", "write"} :
        \E data \in UpdateInputs(table) :
            CrmAnswer(CrmRequest("crm-update", table, id, data, Null, "crmRoutes", fault),
                      putRoute(table, id, data, fault))

CrmDelete ==
    /\ CrmIdle
    /\ \E table \in Tables, id \in RowIds, fault \in {"none", "find", "write"} :
        CrmAnswer(CrmRequest("crm-delete", table, id, NoBody, Null, "crmRoutes", fault),
                  deleteRowRoute(table, id, fault))

CrmNext ==
    \/ Receive
    \/ CrmCreate
    \/ CrmUpdate
    \/ CrmDelete

CrmSpec == Init /\ [][CrmNext]_vars

-----------------------------------------------------------------------------
\* the schema a table's create and update functions validate against
SchemaOf(table) ==
    CASE table = "contacts" -> contactSchema
      [] table = "interactions" -> interactionSchema
      [] table = "activities" -> activitySchema
      [] table = "businesses" -> businessSchema

\* the request being answered is op on a CRM or business table, and no
\* injected failure strikes
AnsweringCrm(op) == resp = NoResponse /\ req'.op = op /\ req'.fault = "none"

\* createContact is called with well-formed data whose email a stored contact has
DuplicateContact ==
    /\ AnsweringCrm("crm-create")
    /\ req'.table = "contacts"
    /\ req'.router = "forUser" => Truthy(req'.userId)
    /\ safeParse(contactSchema, req'.data) = {}
    /\ FindContactByEmail(req'.data.email) # NoRow

(* C28: POST /api/crm/contacts with an email that a stored contact already *)
(* has is answered 409 and no contact is created.  The route of            *)
(* routes/crmRoutes.ts answers 500: its catch block ignores error.status.  *)
C28_DuplicateContactIs409 ==
    [][DuplicateContact => (resp'.status = 409 /\ crm' = crm)]_vars

\* what does hold: no contact is created, and the answer is 409 or 500
C28_DuplicateContactCreatesNothing ==
    [][DuplicateContact => (resp'.status \in {409, 500} /\ crm' = crm)]_vars

(* C29: for contacts, interactions, activities and businesses, an update   *)
(* whose data violates the partial schema is answered 400, also when no    *)
(* row has the id; an update with well-formed data for an id no row has is *)
(* answered 404; both leave every row as it was.  A delete for an id no    *)
(* row has is answered 404 and changes nothing, and a delete for a stored  *)
(* row removes that row and no other.                                      *)
C29_UpdateAndDeleteByCase ==
    [][ /\ AnsweringCrm("crm-update") =>
            LET issues == safeParse(partial(SchemaOf(req'.table)), req'.data)
                row == FindRow(req'.table, req'.id)
            IN  /\ issues # {} => (resp'.status = 400 /\ crm' = crm)
                /\ (issues = {} /\ row = NoRow) => (resp'.status = 404 /\ crm' = crm)
        /\ AnsweringCrm("crm-delete") =>
            LET row == FindRow(req'.table, req'.id)
            IN  IF row = NoRow THEN resp'.status = 404 /\ crm' = crm
                ELSE /\ resp'.status = 200
                     /\ crm' = [crm EXCEPT ![req'.table] = @ \ {row}]
      ]_vars

\* malformed data for an id that no row has was answered 400 while another
\* row of the table is stored
C29_Witness ==
    /\ req.op = "crm-update"
    /\ req.fault = "none"
    /\ req.data # NoBody
    /\ safeParse(partial(SchemaOf(req.table)), req.data) # {}
    /\ FindRow(req.table, req.id) = NoRow
    /\ crm[req.table] # {}
    /\ resp.status = 400
====
